---- MODULE Spec2Model ----
(***************************************************************************)
(* Confidential-field storage layer of the niro-backend CRM: the field     *)
(* cipher and blind index (utils/encrypt.rs), the customer resolver used   *)
(* by Contract/Lead/InterventionTask::create, the role gate                *)
(* (User::require_role), the bulk ownership reassignment (change_handler), *)
(* the recruitment candidates and the modify functions of the entities     *)
(* with confidential fields.                                               *)
(*                                                                         *)
(* The relational store is modelled as one set of rows per table.  Every   *)
(* `.await` on a query is a suspension point, so every query is one atomic *)
(* step of the request that issues it and requests interleave between      *)
(* their queries.  A request occupies one slot of `req` from its call to   *)
(* its return; the slot keeps the returned Result.                         *)
(***************************************************************************)
EXTENDS Integers, FiniteSets, Sequences, TLC

VARIABLES
    users,                        \* table users
    user_info,                    \* table user_info
    customers,                    \* table customers
    customer_contracts,           \* table customer_contracts
    customer_leads,               \* table customer_leads
    customer_intervention_tasks,  \* table customer_intervention_tasks
    recruitment,                  \* table recruitment
    user_dates,                   \* table user_dates
    customer_recommendations,     \* table customer_recommendations
    seq,                          \* the serial id sequence of each table
    req                           \* the requests in flight, one per slot

tables == <<customers, customer_contracts, customer_leads,
            customer_intervention_tasks, seq>>
others == <<recruitment, user_dates, customer_recommendations>>
vars == <<users, user_info, customers, customer_contracts, customer_leads,
          customer_intervention_tasks, recruitment, user_dates,
          customer_recommendations, seq, req>>

-----------------------------------------------------------------------------
(* Bounds and input domains                                                *)

\* Two request slots: any two requests may overlap at every suspension point.
Reqs == {1, 2}

\* Option<T>: None is a value of its own, distinct from the empty string.
None == "<None>"
\* Option<i32> of an internal id: ids are positive, 0 stands for None.
NoId == 0

\* How many distinct e-mail addresses and phone numbers callers present.
NumEmails == 2
NumPhones == 2
EmailPool == <<"eva@x.com", "adam@x.com", "pal@x.com", "zoe@x.com">>
PhonePool == <<"+3620", "+3630", "+3670", "+3611">>
Emails == {EmailPool[i] : i \in 1..NumEmails}
Phones == {PhonePool[i] : i \in 1..NumPhones}
CustomerNames == {"Kiss Eva", "Nagy Adam"}
\* user_uuid arguments: two existing users and one that resolves to no user
ActorUuids == {"uA", "uB", "u0"}

\* the process-wide encryption key and HMAC secret (web_data.rs)
Key == "key"
HmacSecret == "secret"
Nonces == {"nonce-000001"}

-----------------------------------------------------------------------------
(* utils/encrypt.rs, symbolically: a digest or ciphertext is the term that *)
(* names what it was computed from.                                        *)

hash_value(secret, value) == <<"hmac", secret, value>>

\* encrypt_value that encrypts under one fixed nonce and returns the drawn one
encrypt_value_fixed_nonce(key, plaintext, nonce) ==
    [enc |-> <<"aead", key, "nonce-000001", plaintext>>, nonce |-> nonce]

\* encrypt_value with the nonce the generator drew
encrypt_value(key, plaintext, nonce) ==
    [enc |-> <<"aead", key, nonce, plaintext>>, nonce |-> nonce]

\* a ChaCha20Poly1305 nonce is 96 bits: 12 bytes
NonceSize == 12

\* the thread panics: no value is returned
Panic == "<panic>"

\* decrypt_value: Nonce::from_slice asserts that the slice has the length of
\* a nonce and panics otherwise; cipher.decrypt authenticates the ciphertext
\* under the key and the nonce, and a failure becomes None
decrypt_value(key, ciphertext, nonce) ==
    IF Len(nonce) # NonceSize THEN Panic
    ELSE IF ciphertext[1] = "aead" /\ ciphertext[2] = key
               /\ ciphertext[3] = nonce
    THEN ciphertext[4]
    ELSE None

-----------------------------------------------------------------------------
(* models/user.rs                                                          *)

\* users.id by users.uuid (fetch_optional): NoId when no row matches
UserGetIdByUuid(user_uuid) ==
    IF \E u \in users : u.uuid = user_uuid
    THEN (CHOOSE u \in users : u.uuid = user_uuid).id
    ELSE NoId

-----------------------------------------------------------------------------
(* Request slots                                                           *)

Idle == [op |-> "idle", pc |-> "idle", result |-> "none"]

ErrAlreadyExists == "Err: Az ugyfel mar szerepel az adatbazisban."
ErrUserNotFound == "Err: Felhasznalo nem talalhato!"
\* an error of the database driver, passed on by `?`
ErrDatabase == "Err: sqlx"

Return(r, result) == [req[r] EXCEPT !.pc = "done", !.result = result]

CustomerPayloads ==
    [full_name : CustomerNames, phone_number : Phones, email : Emails,
     address : {"Budapest"}, created_by : {"Anna"}]

-----------------------------------------------------------------------------
(* models/customer.rs                                                      *)

\* a lookup that forgets the email half of the WHERE clause
CustomerMatchesPhoneOnly(customer) ==
    {c \in customers :
        c.phone_number_hash = hash_value(HmacSecret, customer.phone_number)}

\* the rows `WHERE email_hash = $1 OR phone_number_hash = $2` selects
CustomerMatches(customer) ==
    {c \in customers :
        \/ c.email_hash = hash_value(HmacSecret, customer.email)
        \/ c.phone_number_hash = hash_value(HmacSecret, customer.phone_number)}

CustomerIsExistsQuery(customer) == CustomerMatches(customer) # {}

\* Customer::create is called (directly, op = "Customer::create")
CustomerCreateCall(r) ==
    /\ req[r].pc = "idle"
    /\ \E uu \in ActorUuids, c \in CustomerPayloads :
          req' = [req EXCEPT ![r] =
                    [op |-> "Customer::create", pc |-> "cc_is_exists",
                     user_uuid |-> uu, customer |-> c, user_id |-> NoId,
                     customer_id |-> NoId, found |-> FALSE,
                     inserted_customer |-> NoId, inserted_dep |-> NoId,
                     result |-> "none"]]
    /\ UNCHANGED <<users, user_info, others, tables>>

\* Customer::create line 82: the existence check
CustomerIsExists(r) ==
    /\ req[r].pc = "cc_is_exists"
    /\ req' = [req EXCEPT ![r] =
                 IF CustomerIsExistsQuery(req[r].customer)
                 THEN Return(r, ErrAlreadyExists)
                 ELSE [req[r] EXCEPT !.pc = "cc_get_user"]]
    /\ UNCHANGED <<users, user_info, others, tables>>

\* Customer::create lines 86-88: the acting user
CustomerGetUser(r) ==
    /\ req[r].pc = "cc_get_user"
    /\ LET id == UserGetIdByUuid(req[r].user_uuid) IN
       req' = [req EXCEPT ![r] =
                 IF id = NoId
                 THEN Return(r, ErrUserNotFound)
                 ELSE [req[r] EXCEPT !.pc = "cc_insert", !.user_id = id]]
    /\ UNCHANGED <<users, user_info, others, tables>>

\* a row whose blind indexes are computed under another secret than lookups use
CustomerRowOtherSecret(id, customer, user_id, n1, n2, n3) ==
    LET phone == encrypt_value(Key, customer.phone_number, n1)
        email == encrypt_value(Key, customer.email, n2)
        addr == encrypt_value(Key, customer.address, n3)
    IN [id |-> id, uuid |-> <<"customers", id>>,
        full_name |-> customer.full_name,
        phone_number_enc |-> phone.enc, phone_number_nonce |-> phone.nonce,
        phone_number_hash |-> hash_value("secret-2", customer.phone_number),
        email_enc |-> email.enc, email_nonce |-> email.nonce,
        email_hash |-> hash_value("secret-2", customer.email),
        address_enc |-> addr.enc, address_nonce |-> addr.nonce,
        comment |-> None,
        user_id |-> user_id, created_by |-> customer.created_by]

CustomerRow(id, customer, user_id, n1, n2, n3) ==
    LET phone == encrypt_value(Key, customer.phone_number, n1)
        email == encrypt_value(Key, customer.email, n2)
        addr == encrypt_value(Key, customer.address, n3)
    IN [id |-> id, uuid |-> <<"customers", id>>,
        full_name |-> customer.full_name,
        phone_number_enc |-> phone.enc, phone_number_nonce |-> phone.nonce,
        phone_number_hash |-> hash_value(HmacSecret, customer.phone_number),
        email_enc |-> email.enc, email_nonce |-> email.nonce,
        email_hash |-> hash_value(HmacSecret, customer.email),
        address_enc |-> addr.enc, address_nonce |-> addr.nonce,
        comment |-> None,
        user_id |-> user_id, created_by |-> customer.created_by]

\* The schema of table customers is not part of the sources.  As the design
\* states it, no UNIQUE constraint covers email_hash or phone_number_hash.
CustomersHashUnique == FALSE

\* an insert that looks at the table again and refuses a duplicate
CustomerInsertRechecking(r) ==
    /\ req[r].pc = "cc_insert"
    /\ IF CustomerIsExistsQuery(req[r].customer)
       THEN /\ req' = [req EXCEPT ![r] = Return(r, ErrAlreadyExists)]
            /\ UNCHANGED <<customers, seq>>
       ELSE LET id == seq["customers"] + 1 IN
               /\ customers' = customers \cup
                     {CustomerRow(id, req[r].customer, req[r].user_id,
                                  "nonce-000001", "nonce-000001", "nonce-000001")}
               /\ seq' = [seq EXCEPT !["customers"] = id]
               /\ req' = [req EXCEPT ![r] =
                     IF req[r].op = "Customer::create"
                     THEN [Return(r, "Ok") EXCEPT !.customer_id = id,
                                                  !.inserted_customer = id]
                     ELSE [req[r] EXCEPT !.pc = "dep_insert",
                                         !.customer_id = id,
                                         !.inserted_customer = id]]
    /\ UNCHANGED <<users, user_info, others, customer_contracts, customer_leads,
                   customer_intervention_tasks>>

\* Customer::create lines 90-120: encrypt, hash, INSERT ... RETURNING id.
\* The code does not look at the table again: the INSERT is refused only by
\* a constraint of the schema, and the `?` then returns the database error.
CustomerInsert(r) ==
    /\ req[r].pc = "cc_insert"
    /\ IF CustomersHashUnique /\ CustomerIsExistsQuery(req[r].customer)
       THEN /\ req' = [req EXCEPT ![r] = Return(r, ErrDatabase)]
            /\ UNCHANGED <<customers, seq>>
       ELSE LET id == seq["customers"] + 1 IN
            \E n1 \in Nonces, n2 \in Nonces, n3 \in Nonces :
               /\ customers' = customers \cup
                     {CustomerRow(id, req[r].customer, req[r].user_id,
                                  n1, n2, n3)}
               /\ seq' = [seq EXCEPT !["customers"] = id]
               /\ req' = [req EXCEPT ![r] =
                     IF req[r].op = "Customer::create"
                     THEN [Return(r, "Ok") EXCEPT !.customer_id = id,
                                                  !.inserted_customer = id]
                     ELSE [req[r] EXCEPT !.pc = "dep_insert",
                                         !.customer_id = id,
                                         !.inserted_customer = id]]
    /\ UNCHANGED <<users, user_info, others, customer_contracts, customer_leads,
                   customer_intervention_tasks>>

-----------------------------------------------------------------------------
(* models/contract.rs, models/lead.rs, models/intervention_task.rs:        *)
(* create resolves the customer (find or create) and inserts the dependent *)
(* row.  The three functions share their text up to the table they insert  *)
(* into.                                                                   *)

DepOps == {"Contract::create", "Lead::create", "InterventionTask::create"}

DepCall(r, op) ==
    /\ req[r].pc = "idle"
    /\ \E uu \in ActorUuids, c \in CustomerPayloads :
          req' = [req EXCEPT ![r] =
                    [op |-> op, pc |-> "dep_get_user",
                     user_uuid |-> uu, customer |-> c, user_id |-> NoId,
                     customer_id |-> NoId, found |-> FALSE,
                     inserted_customer |-> NoId, inserted_dep |-> NoId,
                     result |-> "none"]]
    /\ UNCHANGED <<users, user_info, others, tables>>

\* a lookup whose None is not turned into an error
DepGetUserUnchecked(r, op) ==
    /\ req[r].op = op
    /\ req[r].pc = "dep_get_user"
    /\ req' = [req EXCEPT ![r] =
                 [req[r] EXCEPT !.pc = "dep_select",
                                !.user_id = UserGetIdByUuid(req[r].user_uuid)]]
    /\ UNCHANGED <<users, user_info, others, tables>>

\* User::get_id_by_uuid(..).ok_or_else(..)?  -- the first statement of create
DepGetUser(r, op) ==
    /\ req[r].op = op
    /\ req[r].pc = "dep_get_user"
    /\ LET id == UserGetIdByUuid(req[r].user_uuid) IN
       req' = [req EXCEPT ![r] =
                 IF id = NoId
                 THEN Return(r, ErrUserNotFound)
                 ELSE [req[r] EXCEPT !.pc = "dep_select", !.user_id = id]]
    /\ UNCHANGED <<users, user_info, others, tables>>

\* a resolver that looks only among the customers of the acting user
DepSelectOwnCustomers(r, op) ==
    /\ req[r].op = op
    /\ req[r].pc = "dep_select"
    /\ LET rows == {c \in CustomerMatches(req[r].customer) :
                       c.user_id = req[r].user_id} IN
       IF rows # {}
       THEN \E existing \in rows :
               req' = [req EXCEPT ![r] =
                         [req[r] EXCEPT !.pc = "dep_insert", !.found = TRUE,
                                        !.customer_id = existing.id]]
       ELSE req' = [req EXCEPT ![r] = [req[r] EXCEPT !.pc = "cc_is_exists"]]
    /\ UNCHANGED <<users, user_info, others, tables>>

\* SELECT id FROM customers WHERE email_hash = $1 OR phone_number_hash = $2
\* with fetch_optional: one of the matching rows, in no stated order.  A
\* match is used as it is; without one the request goes on into
\* Customer::create with the caller's payload.
DepSelect(r, op) ==
    /\ req[r].op = op
    /\ req[r].pc = "dep_select"
    /\ LET rows == CustomerMatches(req[r].customer) IN
       IF rows # {}
       THEN \E existing \in rows :
               req' = [req EXCEPT ![r] =
                         [req[r] EXCEPT !.pc = "dep_insert", !.found = TRUE,
                                        !.customer_id = existing.id]]
       ELSE req' = [req EXCEPT ![r] = [req[r] EXCEPT !.pc = "cc_is_exists"]]
    /\ UNCHANGED <<users, user_info, others, tables>>

\* a row linked to the acting user's id instead of the customer's
DepRowWrongLink(table, id, r) ==
    [id |-> id, uuid |-> <<table, id>>, customer_id |-> req[r].user_id,
     user_id |-> req[r].user_id, created_by |-> req[r].customer.created_by]

DepRow(table, id, r) ==
    [id |-> id, uuid |-> <<table, id>>, customer_id |-> req[r].customer_id,
     user_id |-> req[r].user_id, created_by |-> req[r].customer.created_by]

DepReturn(r, id) == [Return(r, "Ok") EXCEPT !.inserted_dep = id]

ContractCreateCall(r) == DepCall(r, "Contract::create")
ContractGetUser(r) == DepGetUser(r, "Contract::create")
ContractSelectCustomer(r) == DepSelect(r, "Contract::create")

\* an insert that also merges the caller's payload into the customer it links
ContractInsertMerging(r) ==
    /\ req[r].op = "Contract::create"
    /\ req[r].pc = "dep_insert"
    /\ LET id == seq["customer_contracts"] + 1 IN
          /\ customer_contracts' =
                customer_contracts \cup {DepRow("customer_contracts", id, r)}
          /\ seq' = [seq EXCEPT !["customer_contracts"] = id]
          /\ req' = [req EXCEPT ![r] = DepReturn(r, id)]
          /\ customers' =
                {IF c.id = req[r].customer_id
                 THEN [c EXCEPT !.full_name = req[r].customer.full_name]
                 ELSE c : c \in customers}
    /\ UNCHANGED <<users, user_info, others, customer_leads,
                   customer_intervention_tasks>>

\* INSERT INTO customer_contracts(.., customer_id, user_id, created_by)
ContractInsert(r) ==
    /\ req[r].op = "Contract::create"
    /\ req[r].pc = "dep_insert"
    /\ LET id == seq["customer_contracts"] + 1 IN
          /\ customer_contracts' =
                customer_contracts \cup {DepRow("customer_contracts", id, r)}
          /\ seq' = [seq EXCEPT !["customer_contracts"] = id]
          /\ req' = [req EXCEPT ![r] = DepReturn(r, id)]
    /\ UNCHANGED <<users, user_info, others, customers, customer_leads,
                   customer_intervention_tasks>>

LeadCreateCall(r) == DepCall(r, "Lead::create")
LeadGetUser(r) == DepGetUser(r, "Lead::create")
LeadSelectCustomer(r) == DepSelect(r, "Lead::create")

\* INSERT INTO customer_leads(.., customer_id, user_id, created_by)
LeadInsert(r) ==
    /\ req[r].op = "Lead::create"
    /\ req[r].pc = "dep_insert"
    /\ LET id == seq["customer_leads"] + 1 IN
          /\ customer_leads' =
                customer_leads \cup {DepRow("customer_leads", id, r)}
          /\ seq' = [seq EXCEPT !["customer_leads"] = id]
          /\ req' = [req EXCEPT ![r] = DepReturn(r, id)]
    /\ UNCHANGED <<users, user_info, others, customers, customer_contracts,
                   customer_intervention_tasks>>

TaskCreateCall(r) == DepCall(r, "InterventionTask::create")
TaskGetUser(r) == DepGetUser(r, "InterventionTask::create")
TaskSelectCustomer(r) == DepSelect(r, "InterventionTask::create")

\* INSERT INTO customer_intervention_tasks(.., customer_id, user_id, created_by)
TaskInsert(r) ==
    /\ req[r].op = "InterventionTask::create"
    /\ req[r].pc = "dep_insert"
    /\ LET id == seq["customer_intervention_tasks"] + 1 IN
          /\ customer_intervention_tasks' =
                customer_intervention_tasks \cup
                   {DepRow("customer_intervention_tasks", id, r)}
          /\ seq' = [seq EXCEPT !["customer_intervention_tasks"] = id]
          /\ req' = [req EXCEPT ![r] = DepReturn(r, id)]
    /\ UNCHANGED <<users, user_info, others, customers, customer_contracts,
                   customer_leads>>

-----------------------------------------------------------------------------

InitUsers ==
    {[id |-> 1, uuid |-> "uA", email |-> "anna@niro.hu", username |-> "anna",
      user_role |-> "Agent", manager_id |-> 3],
     [id |-> 2, uuid |-> "uB", email |-> "bela@niro.hu", username |-> "bela",
      user_role |-> "Agent", manager_id |-> 3],
     [id |-> 3, uuid |-> "uM", email |-> "bela2@niro.hu", username |-> "bela2",
      user_role |-> "Manager", manager_id |-> 4],
     [id |-> 4, uuid |-> "uL", email |-> "lili@niro.hu", username |-> "lili",
      user_role |-> "Leader", manager_id |-> NoId]}

InitUserInfo ==
    {[user_id |-> 1, full_name |-> "Anna"],
     [user_id |-> 2, full_name |-> "Bela"],
     [user_id |-> 3, full_name |-> "Bela"],
     [user_id |-> 4, full_name |-> "Lili"]}

TableNames == {"customers", "customer_contracts", "customer_leads",
               "customer_intervention_tasks", "recruitment", "user_dates",
               "customer_recommendations"}

Init ==
    /\ users = InitUsers
    /\ user_info = InitUserInfo
    /\ customers = {}
    /\ customer_contracts = {}
    /\ customer_leads = {}
    /\ customer_intervention_tasks = {}
    /\ recruitment = {}
    /\ user_dates = {}
    /\ customer_recommendations = {}
    /\ seq = [t \in TableNames |-> 0]
    /\ req = [r \in Reqs |-> Idle]

\* one step of the request in slot r
Step(r) ==
    \/ CustomerCreateCall(r)
    \/ CustomerIsExists(r)
    \/ CustomerGetUser(r)
    \/ CustomerInsert(r)
    \/ ContractCreateCall(r)
    \/ ContractGetUser(r)
    \/ ContractSelectCustomer(r)
    \/ ContractInsert(r)
    \/ LeadCreateCall(r)
    \/ LeadGetUser(r)
    \/ LeadSelectCustomer(r)
    \/ LeadInsert(r)
    \/ TaskCreateCall(r)
    \/ TaskGetUser(r)
    \/ TaskSelectCustomer(r)
    \/ TaskInsert(r)

Next == \E r \in Reqs : Step(r)

Spec == Init /\ [][Next]_vars

\* Requests that do not overlap: a request runs only while no other request
\* is between its call and its return.
NoOtherInFlight(r) ==
    \A o \in Reqs \ {r} : req[o].pc \in {"idle", "done"}

SeqNext ==
    \E r \in Reqs :
        \/ NoOtherInFlight(r) /\ CustomerCreateCall(r)
        \/ NoOtherInFlight(r) /\ CustomerIsExists(r)
        \/ NoOtherInFlight(r) /\ CustomerGetUser(r)
        \/ NoOtherInFlight(r) /\ CustomerInsert(r)
        \/ NoOtherInFlight(r) /\ ContractCreateCall(r)
        \/ NoOtherInFlight(r) /\ ContractGetUser(r)
        \/ NoOtherInFlight(r) /\ ContractSelectCustomer(r)
        \/ NoOtherInFlight(r) /\ ContractInsert(r)
        \/ NoOtherInFlight(r) /\ LeadCreateCall(r)
        \/ NoOtherInFlight(r) /\ LeadGetUser(r)
        \/ NoOtherInFlight(r) /\ LeadSelectCustomer(r)
        \/ NoOtherInFlight(r) /\ LeadInsert(r)
        \/ NoOtherInFlight(r) /\ TaskCreateCall(r)
        \/ NoOtherInFlight(r) /\ TaskGetUser(r)
        \/ NoOtherInFlight(r) /\ TaskSelectCustomer(r)
        \/ NoOtherInFlight(r) /\ TaskInsert(r)

SpecSeq == Init /\ [][SeqNext]_vars

-----------------------------------------------------------------------------
(* Properties of the customer resolver (Spec)                              *)

CreateOps == {"Customer::create"} \cup DepOps

\* request r took the step
Moved(r) == req'[r] # req[r]

EmailHashIds(e) ==
    {c.id : c \in {x \in customers : x.email_hash = hash_value(HmacSecret, e)}}

MatchIds(customer) ==
    {c.id : c \in {x \in customers :
        \/ x.email_hash = hash_value(HmacSecret, customer.email)
        \/ x.phone_number_hash = hash_value(HmacSecret, customer.phone_number)}}

\* r is about to run its existence check: line 82 of a direct
\* Customer::create, or the resolver's SELECT of a dependent create
AtExistenceCheck(r) ==
    \/ req[r].op = "Customer::create" /\ req[r].pc = "cc_is_exists"
    \/ req[r].op \in DepOps /\ req[r].pc = "dep_select"

DepTable(op) ==
    CASE op = "Contract::create" -> customer_contracts
      [] op = "Lead::create" -> customer_leads
      [] op = "InterventionTask::create" -> customer_intervention_tasks

C2_CheckThenInsertNotAtomic ==
    [][\A r \in Reqs :
          /\ (req[r].pc = "cc_is_exists" /\ Moved(r)
                /\ MatchIds(req[r].customer) = {})
             => req'[r].pc = "cc_get_user"
          /\ (req[r].pc = "cc_insert" /\ Moved(r))
             => /\ req'[r].inserted_customer \notin {c.id : c \in customers}
                /\ \E c \in customers' :
                      /\ c.id = req'[r].inserted_customer
                      /\ c.email_hash =
                            hash_value(HmacSecret, req[r].customer.email)
                      /\ c.phone_number_hash =
                            hash_value(HmacSecret, req[r].customer.phone_number)
                      /\ customers' = customers \cup {c}]_vars

\* two requests presented the same new email and phone, and two customer
\* rows now carry that email hash and that phone hash
C2_Witness ==
    \E c1 \in customers, c2 \in customers :
        /\ c1.id # c2.id
        /\ c1.email_hash = c2.email_hash
        /\ c1.phone_number_hash = c2.phone_number_hash
        /\ \A r \in Reqs :
              /\ req[r].op \in CreateOps
              /\ req[r].inserted_customer \in {c1.id, c2.id}

UnknownActor(r) ==
    /\ req[r].op \in CreateOps
    /\ \A u \in users : u.uuid # req[r].user_uuid

\* C6: a create whose user_uuid resolves to no user returns an error, and no
\* step of it writes: no customer row and no contract, lead or task row.
C6_ActorNotFoundBeforeWrite ==
    /\ [][\A r \in Reqs :
            (UnknownActor(r) /\ Moved(r)) => UNCHANGED tables]_vars
    /\ [](\A r \in Reqs :
            UnknownActor(r)
            => /\ req[r].inserted_customer = NoId
               /\ req[r].inserted_dep = NoId
               /\ req[r].pc = "done"
                    => req[r].result \in {ErrUserNotFound, ErrAlreadyExists})

\* a dependent create and a direct create have both returned the
\* user-not-found error, and the store is still empty
C6_Witness ==
    /\ \E r \in Reqs :
          /\ req[r].op \in DepOps /\ UnknownActor(r)
          /\ req[r].pc = "done" /\ req[r].result = ErrUserNotFound
    /\ \E r \in Reqs :
          /\ req[r].op = "Customer::create" /\ UnknownActor(r)
          /\ req[r].pc = "done" /\ req[r].result = ErrUserNotFound
    /\ customers = {}

\* C7: when the resolver of a dependent create finds a stored customer
\* matching by email hash or phone hash, it takes that customer's id, no
\* step of the request changes any customer row, and the dependent row it
\* inserts carries that id.
C7_FirstWriterWins ==
    /\ [][\A r \in Reqs :
            (req[r].op \in DepOps /\ Moved(r)
               /\ (req[r].found
                     \/ (req[r].pc = "dep_select"
                           /\ MatchIds(req[r].customer) # {})))
            => /\ customers' = customers
               /\ req'[r].found
               /\ req[r].pc = "dep_select"
                    => req'[r].customer_id \in MatchIds(req[r].customer)
               /\ req[r].pc # "dep_select"
                    => req'[r].customer_id = req[r].customer_id]_vars
    /\ [](\A r \in Reqs :
            (req[r].op \in DepOps /\ req[r].found /\ req[r].pc = "done")
            => /\ req[r].result = "Ok"
               /\ req[r].inserted_customer = NoId
               /\ \E d \in DepTable(req[r].op) :
                     /\ d.id = req[r].inserted_dep
                     /\ d.customer_id = req[r].customer_id)

\* a dependent create matched a stored customer by phone only, presenting
\* another email and another name, and has returned: the stored row still
\* holds the first writer's name and email
C7_Witness ==
    \E r \in Reqs, c \in customers :
        /\ req[r].op \in DepOps /\ req[r].pc = "done" /\ req[r].found
        /\ c.id = req[r].customer_id
        /\ c.phone_number_hash =
              hash_value(HmacSecret, req[r].customer.phone_number)
        /\ c.email_hash # hash_value(HmacSecret, req[r].customer.email)
        /\ c.full_name # req[r].customer.full_name
        /\ decrypt_value(Key, c.email_enc, c.email_nonce)
              # req[r].customer.email

-----------------------------------------------------------------------------
(* Properties of non-overlapping requests (SpecSeq)                        *)

\* the customer rows that no request other than r inserted
CustomersNotInsertedByOthers(r) ==
    {x \in customers :
        \A o \in Reqs \ {r} :
            req[o].op \in CreateOps => x.id # req[o].inserted_customer}

\* the contract rows that no request other than r inserted
ContractsNotInsertedByOthers(r) ==
    {x \in customer_contracts :
        \A o \in Reqs \ {r} :
            req[o].op = "Contract::create" => x.id # req[o].inserted_dep}

\* C8: without overlapping requests, a Contract::create whose actor resolves
\* and whose email and phone matched no stored customer returns Ok having
\* added exactly one customer row (the caller's hashes, owned by the actor)
\* and exactly one contract row, whose customer_id is that customer's id.
C8_NewCustomerOneContract ==
    \A r \in Reqs :
        (req[r].op = "Contract::create" /\ req[r].pc = "done"
           /\ req[r].user_id # NoId /\ ~req[r].found)
        => /\ req[r].result = "Ok"
           /\ \E c \in customers, d \in customer_contracts :
                 /\ c.id = req[r].inserted_customer
                 /\ c.email_hash = hash_value(HmacSecret, req[r].customer.email)
                 /\ c.phone_number_hash =
                       hash_value(HmacSecret, req[r].customer.phone_number)
                 /\ c.user_id = req[r].user_id
                 /\ d.id = req[r].inserted_dep
                 /\ d.customer_id = c.id
                 /\ CustomersNotInsertedByOthers(r) = {c}
                 /\ ContractsNotInsertedByOthers(r) = {d}

\* a Contract::create for a brand-new customer has returned, after an earlier
\* request had already stored another customer
C8_Witness ==
    \E r \in Reqs :
        /\ req[r].op = "Contract::create" /\ req[r].pc = "done"
        /\ req[r].result = "Ok" /\ ~req[r].found
        /\ req[r].inserted_customer = 2
        /\ Cardinality(customers) = 2

-----------------------------------------------------------------------------
(***************************************************************************)
(* The role gate (User::require_role) and the handlers behind it           *)
(* (scopes/*.rs): bulk reassignment (Leader), bulk delete (Agent) and a    *)
(* chart (Manager).  A handler is a request of two to four steps: the gate *)
(* query, then the queries of the model function it calls.                 *)
(***************************************************************************)
ErrForbidden == "Err: Ehez a folyamathoz nincs jogosultsagod!"

\* enum UserRole, in the order of its declaration
UserRoles == <<"Agent", "Manager", "Leader">>

\* a conversion whose catch-all arm is the highest role
UserRoleFromFallbackLeader(value) ==
    IF value = "Agent" THEN "Agent"
    ELSE IF value = "Manager" THEN "Manager"
    ELSE "Leader"

\* impl From<String> for UserRole
UserRoleFrom(value) ==
    IF value = "Leader" THEN "Leader"
    ELSE IF value = "Manager" THEN "Manager"
    ELSE "Agent"

\* #[derive(PartialOrd, Ord)]: variants compare by their position
UserRoleOrd(role) == CHOOSE i \in DOMAIN UserRoles : UserRoles[i] = role

\* User::get_role: fetch_one, so a missing user is a database error
UserGetRole(user_id) ==
    LET rows == {u \in users : u.id = user_id} IN
    IF rows = {} THEN ErrDatabase
    ELSE UserRoleFrom((CHOOSE u \in rows : TRUE).user_role)

\* a gate that asks for strictly more than min_role
UserRequireRoleStrict(min_role, user_role) ==
    IF UserRoleOrd(user_role) > UserRoleOrd(min_role) THEN "Ok"
    ELSE ErrForbidden

\* User::require_role lines 78-81, with the role get_role returned
UserRequireRole(min_role, user_role) ==
    IF UserRoleOrd(user_role) >= UserRoleOrd(min_role) THEN "Ok"
    ELSE ErrForbidden

\* auth_token.id of the caller: an agent, a manager, a leader, and the id of
\* a user that has been deleted since the token was issued
ActorIds == {1, 3, 4, 9}

\* user_full_name arguments: a name two users carry, a name one user
\* carries, a name nobody carries
HandlerNames == {"Bela", "Lili", "Nobody"}

\* how many customers the store holds when the handlers run
NumRecords == 3

ChangeOps == {"change_customer_handler", "change_contract_handler",
              "change_lead_handler", "change_intervention_task_handler"}

\* the table a handler writes
HandlerTable(op) ==
    CASE op = "change_customer_handler" -> customers
      [] op = "change_contract_handler" -> customer_contracts
      [] op = "change_lead_handler" -> customer_leads
      [] op = "change_intervention_task_handler" -> customer_intervention_tasks
      [] op = "delete_contract" -> customer_contracts
      [] OTHER -> {}

\* the first query of the handler's body, once the gate has let it through
HandlerBody(op) ==
    CASE op \in ChangeOps -> "ch_select_user"
      [] op = "delete_contract" -> "delete"
      [] op = "modify_user_manager" -> "mm_get_id"
      [] OTHER -> "chart"

HandlerCall(r, op, min_role, names, uuids) ==
    /\ req[r].pc = "idle"
    /\ \E actor \in ActorIds, name \in names, list \in SUBSET uuids :
          req' = [req EXCEPT ![r] =
                    [op |-> op, pc |-> "require_role", actor |-> actor,
                     min_role |-> min_role, user_role |-> None,
                     user_full_name |-> name, uuids |-> list,
                     user_id |-> NoId, result |-> "none"]]
    /\ UNCHANGED <<users, user_info, tables, others>>

\* a reassignment handler gated at Manager
ChangeHandlerCallManagerGate(r, op) ==
    HandlerCall(r, op, "Manager", HandlerNames,
                {row.uuid : row \in HandlerTable(op)})

\* change_*_handler: require_role(Leader), then Model::change_handler with
\* the name and the uuid list of the request body
ChangeHandlerCall(r, op) ==
    HandlerCall(r, op, "Leader", HandlerNames,
                {row.uuid : row \in HandlerTable(op)})

ChangeCustomerHandlerCall(r) == ChangeHandlerCall(r, "change_customer_handler")
ChangeContractHandlerCall(r) == ChangeHandlerCall(r, "change_contract_handler")
ChangeLeadHandlerCall(r) == ChangeHandlerCall(r, "change_lead_handler")
ChangeTaskHandlerCall(r) ==
    ChangeHandlerCall(r, "change_intervention_task_handler")

\* delete_contract: require_role(Agent), then Contract::delete
DeleteContractCall(r) ==
    HandlerCall(r, "delete_contract", "Agent", {None},
                {row.uuid : row \in customer_contracts})

\* get_portfolio_chart: require_role(Manager), then a read
PortfolioChartCall(r) ==
    HandlerCall(r, "get_portfolio_chart", "Manager", {None}, {})

\* a gate that decides on the role the actor had when its token was issued
RequireRoleAtSignIn(r) ==
    /\ req[r].pc = "require_role"
    /\ LET rows == {u \in InitUsers : u.id = req[r].actor}
           user_role == IF rows = {} THEN ErrDatabase
                        ELSE UserRoleFrom((CHOOSE u \in rows : TRUE).user_role)
           gate == IF user_role = ErrDatabase THEN ErrDatabase
                   ELSE UserRequireRole(req[r].min_role, user_role)
       IN  req' = [req EXCEPT ![r] =
                     IF gate = "Ok"
                     THEN [req[r] EXCEPT !.pc = HandlerBody(req[r].op),
                                         !.user_role = user_role]
                     ELSE [Return(r, gate) EXCEPT !.user_role = user_role]]
    /\ UNCHANGED <<users, user_info, tables, others>>

\* `if let Err(e) = User::require_role(..).await { return .. }`
RequireRole(r) ==
    /\ req[r].pc = "require_role"
    /\ LET user_role == UserGetRole(req[r].actor)
           gate == IF user_role = ErrDatabase THEN ErrDatabase
                   ELSE UserRequireRole(req[r].min_role, user_role)
       IN  req' = [req EXCEPT ![r] =
                     IF gate = "Ok"
                     THEN [req[r] EXCEPT !.pc = HandlerBody(req[r].op),
                                         !.user_role = user_role]
                     ELSE [Return(r, gate) EXCEPT !.user_role = user_role]]
    /\ UNCHANGED <<users, user_info, tables, others>>

\* SELECT user_id as id FROM user_info WHERE full_name = $1, fetch_one: an
\* error without a row, and with several rows the one the database happens
\* to return first
ChangeHandlerSelectUser(r) ==
    /\ req[r].pc = "ch_select_user"
    /\ LET rows == {i \in user_info : i.full_name = req[r].user_full_name} IN
          \/ /\ rows = {}
             /\ req' = [req EXCEPT ![r] = Return(r, ErrDatabase)]
          \/ \E user \in rows :
                req' = [req EXCEPT ![r] = [req[r] EXCEPT !.pc = "ch_update",
                                                         !.user_id = user.user_id]]
    /\ UNCHANGED <<users, user_info, tables, others>>

\* UPDATE <table> SET user_id = $2 WHERE uuid = ANY($1)
SetHandler(rows, uuids, user_id) ==
    {IF row.uuid \in uuids THEN [row EXCEPT !.user_id = user_id] ELSE row :
        row \in rows}

ChangeHandlerUpdate(r, op) ==
    /\ req[r].op = op
    /\ req[r].pc = "ch_update"
    /\ req' = [req EXCEPT ![r] = Return(r, "Ok")]
    /\ UNCHANGED <<users, user_info, others, seq>>

CustomerChangeHandler(r) ==
    /\ ChangeHandlerUpdate(r, "change_customer_handler")
    /\ customers' = SetHandler(customers, req[r].uuids, req[r].user_id)
    /\ UNCHANGED <<customer_contracts, customer_leads,
                   customer_intervention_tasks>>

\* a reassignment of contracts that hands the linked customers over as well
ContractChangeHandlerWithCustomers(r) ==
    /\ ChangeHandlerUpdate(r, "change_contract_handler")
    /\ customer_contracts' =
          SetHandler(customer_contracts, req[r].uuids, req[r].user_id)
    /\ customers' =
          {IF \E d \in customer_contracts :
                 d.uuid \in req[r].uuids /\ d.customer_id = c.id
           THEN [c EXCEPT !.user_id = req[r].user_id]
           ELSE c : c \in customers}
    /\ UNCHANGED <<customer_leads, customer_intervention_tasks>>

ContractChangeHandler(r) ==
    /\ ChangeHandlerUpdate(r, "change_contract_handler")
    /\ customer_contracts' =
          SetHandler(customer_contracts, req[r].uuids, req[r].user_id)
    /\ UNCHANGED <<customers, customer_leads, customer_intervention_tasks>>

LeadChangeHandler(r) ==
    /\ ChangeHandlerUpdate(r, "change_lead_handler")
    /\ customer_leads' =
          SetHandler(customer_leads, req[r].uuids, req[r].user_id)
    /\ UNCHANGED <<customers, customer_contracts,
                   customer_intervention_tasks>>

TaskChangeHandler(r) ==
    /\ ChangeHandlerUpdate(r, "change_intervention_task_handler")
    /\ customer_intervention_tasks' =
          SetHandler(customer_intervention_tasks, req[r].uuids,
                     req[r].user_id)
    /\ UNCHANGED <<customers, customer_contracts, customer_leads>>

\* DELETE FROM customer_contracts WHERE uuid = ANY($1)
ContractDelete(r) ==
    /\ req[r].pc = "delete"
    /\ customer_contracts' =
          {row \in customer_contracts : row.uuid \notin req[r].uuids}
    /\ req' = [req EXCEPT ![r] = Return(r, "Ok")]
    /\ UNCHANGED <<users, user_info, others, seq, customers, customer_leads,
                   customer_intervention_tasks>>

\* Contract::get_portfolio_chart: a SELECT over customer_contracts
PortfolioChart(r) ==
    /\ req[r].pc = "chart"
    /\ req' = [req EXCEPT ![r] = Return(r, "Ok")]
    /\ UNCHANGED <<users, user_info, tables, others>>

\* A store as the create functions leave it: NumRecords customers of agent
\* Anna (id 1), two contracts, two leads and one intervention task.
GateCustomers ==
    {CustomerRow(i, [full_name |-> "Kiss Eva", phone_number |-> PhonePool[i],
                     email |-> EmailPool[i], address |-> "Budapest",
                     created_by |-> "Anna"], 1, "nonce-000001", "nonce-000001", "nonce-000001") :
        i \in 1..NumRecords}

GateDependents(table, owners) ==
    {[id |-> i, uuid |-> <<table, i>>, customer_id |-> i,
      user_id |-> owners[i], created_by |-> "Anna"] : i \in DOMAIN owners}

GateInit ==
    /\ users = InitUsers
    /\ user_info = InitUserInfo
    /\ customers = GateCustomers
    /\ customer_contracts = GateDependents("customer_contracts", <<1, 2>>)
    /\ customer_leads = GateDependents("customer_leads", <<1, 1>>)
    /\ customer_intervention_tasks =
          GateDependents("customer_intervention_tasks", <<2>>)
    /\ recruitment = {}
    /\ user_dates = {}
    /\ customer_recommendations = {}
    /\ seq = [t \in TableNames |->
                CASE t = "customers" -> NumRecords
                  [] t \in {"customer_contracts", "customer_leads"} -> 2
                  [] t = "customer_intervention_tasks" -> 1
                  [] OTHER -> 0]
    /\ req = [r \in Reqs |-> Idle]

GateNext ==
    \E r \in Reqs :
        \/ ChangeCustomerHandlerCall(r)
        \/ ChangeContractHandlerCall(r)
        \/ ChangeLeadHandlerCall(r)
        \/ ChangeTaskHandlerCall(r)
        \/ DeleteContractCall(r)
        \/ PortfolioChartCall(r)
        \/ RequireRole(r)
        \/ ChangeHandlerSelectUser(r)
        \/ CustomerChangeHandler(r)
        \/ ContractChangeHandler(r)
        \/ LeadChangeHandler(r)
        \/ TaskChangeHandler(r)
        \/ ContractDelete(r)
        \/ PortfolioChart(r)

SpecGate == GateInit /\ [][GateNext]_vars

-----------------------------------------------------------------------------
(***************************************************************************)
(* Properties of the role gate and the reassignment handlers (SpecGate)    *)
(***************************************************************************)
\* the role stored for the actor of request r
StoredRole(r) == (CHOOSE u \in users : u.id = req[r].actor).user_role

ActorExists(r) == \E u \in users : u.id = req[r].actor

\* the <<min_role, stored role>> pairs of the ordering Agent < Manager < Leader
\* with stored role >= min_role, written out
RoleSuffices ==
    {<<"Agent", "Agent">>, <<"Agent", "Manager">>, <<"Agent", "Leader">>,
     <<"Manager", "Manager">>, <<"Manager", "Leader">>,
     <<"Leader", "Leader">>}

\* C3: for an existing actor the gate lets the request through exactly when
\* the stored role is at least min_role in Agent < Manager < Leader:
\* Manager is met by Manager and Leader and not by Agent, Leader only by
\* Leader, Agent by everyone; a request that is not let through returns the
\* no-permission error.
C3_RequireRoleOrdering ==
    [][\A r \in Reqs :
          (req[r].pc = "require_role" /\ Moved(r) /\ ActorExists(r))
          => IF <<req[r].min_role, StoredRole(r)>> \in RoleSuffices
             THEN req'[r].pc = HandlerBody(req[r].op)
             ELSE req'[r].pc = "done" /\ req'[r].result = ErrForbidden]_vars

\* a manager has been let through a Manager gate, and a manager has been
\* turned away by a Leader gate
C3_Witness ==
    \E r, o \in Reqs :
        /\ req[r].op = "get_portfolio_chart" /\ req[r].actor = 3
        /\ req[r].pc = "done" /\ req[r].result = "Ok"
        /\ req[o].op \in ChangeOps /\ req[o].actor = 3
        /\ req[o].pc = "done" /\ req[o].result = ErrForbidden

\* some stored record of a reassignable table changes its owner in this step
OwnerChanged ==
    \E op \in ChangeOps :
        \E row \in HandlerTable(op) :
            \E after \in HandlerTable(op)' :
                after.uuid = row.uuid /\ after.user_id # row.user_id

\* C4 as claimed: the update of change_handler(name, uuids) sets the owner
\* of every listed record to the id of the user who carries that name, and
\* changes nothing else: no other field of a listed record, no record that
\* is not listed, no other table.
C4_AsClaimed ==
    [][\A r \in Reqs :
          (req[r].op \in ChangeOps /\ req[r].pc = "ch_update" /\ Moved(r))
          => LET before == HandlerTable(req[r].op)
                 after == HandlerTable(req[r].op)'
             IN  /\ \A b \in user_info :
                       b.full_name = req[r].user_full_name
                       => \A row \in after :
                             row.uuid \in req[r].uuids
                             => row.user_id = b.user_id
                 /\ \A row \in before :
                       \E now \in after :
                          IF row.uuid \in req[r].uuids
                          THEN [now EXCEPT !.user_id = row.user_id] = row
                          ELSE now = row
                 /\ Cardinality(after) = Cardinality(before)
                 /\ \A op \in ChangeOps \ {req[r].op} :
                       HandlerTable(op)' = HandlerTable(op)
                 /\ UNCHANGED <<users, user_info, others, seq>>]_vars

\* C5: a reassignment request of an actor whose stored role is Agent or
\* Manager is turned away by the gate with the no-permission error and
\* writes nothing; a request is past the gate only if the role read for it
\* was Leader, and an owner reference changes only in the update step of
\* such a request.
C5_ReassignmentRequiresLeader ==
    [][/\ \A r \in Reqs :
             (req[r].op \in ChangeOps /\ Moved(r))
             => /\ (req[r].pc = "require_role" /\ ActorExists(r)
                      /\ StoredRole(r) \in {"Agent", "Manager"})
                   => (req'[r].pc = "done" /\ req'[r].result = ErrForbidden)
                /\ req'[r].pc \in {"ch_select_user", "ch_update"}
                   => req'[r].user_role = "Leader"
                /\ req[r].pc # "ch_update" => UNCHANGED tables
       /\ OwnerChanged
          => \E r \in Reqs :
                /\ Moved(r) /\ req[r].op \in ChangeOps
                /\ req[r].pc = "ch_update" /\ req[r].user_role = "Leader"]_vars

\* a manager's reassignment has been turned away, a leader's reassignment of
\* all customers to Lili (id 4) has gone through
C5_Witness ==
    \E r, o \in Reqs :
        /\ req[r].op = "change_customer_handler" /\ req[r].actor = 3
        /\ req[r].pc = "done" /\ req[r].result = ErrForbidden
        /\ req[o].op = "change_customer_handler" /\ req[o].actor = 4
        /\ req[o].pc = "done" /\ req[o].result = "Ok"
        /\ \A c \in customers : c.user_id = 4

-----------------------------------------------------------------------------
(***************************************************************************)
(* models/recruitment.rs: candidates, deduplicated by full name, email     *)
(* hash and phone hash.                                                    *)
(***************************************************************************)
ErrCandidateExists == "Err: A jelolt mar szerepel!"
ErrEmailRequired == "Err: Email megadasa kotelezo!"
ErrPhoneRequired == "Err: Telefonszam megadasa kotelezo!"

\* Option::or
Or(a, b) == IF a # None THEN a ELSE b

\* Option::unwrap_or, and unwrap_or_default with the default of str
UnwrapOr(a, default) == IF a = None THEN default ELSE a

\* every table but recruitment
notRecruitment ==
    <<users, user_info, customers, customer_contracts, customer_leads,
      customer_intervention_tasks, user_dates, customer_recommendations>>

\* the Recruitment values create is called with
RecruitmentPayloads ==
    [full_name : CustomerNames, email : Emails \cup {None},
     phone_number : Phones \cup {None}, description : {"note"},
     created_by : {"Anna"}]

\* the Recruitment values modify is called with: any field may be omitted
RecruitmentUpdates ==
    [full_name : {None, "Nagy Adam"}, email : Emails \cup {None},
     phone_number : Phones \cup {None}, created_by : {None}]

\* recruitment_uuid arguments of modify and delete
RecruitmentUuids == {<<"recruitment", 1>>, <<"recruitment", 2>>}

\* a lookup that forgets the email_hash clause
RecruitmentMatchesNoEmail(r) ==
    {row \in recruitment :
        \/ row.full_name = UnwrapOr(r.full_name, "")
        \/ row.phone_number_hash =
              hash_value(HmacSecret, UnwrapOr(r.phone_number, ""))}

\* WHERE full_name = $1 OR email_hash = $2 OR phone_number_hash = $3
RecruitmentMatches(r) ==
    {row \in recruitment :
        \/ row.full_name = UnwrapOr(r.full_name, "")
        \/ row.email_hash = hash_value(HmacSecret, UnwrapOr(r.email, ""))
        \/ row.phone_number_hash =
              hash_value(HmacSecret, UnwrapOr(r.phone_number, ""))}

RecruitmentRow(n, r, n1, n2) ==
    LET email == encrypt_value(Key, r.email, n1)
        phone == encrypt_value(Key, r.phone_number, n2)
    IN [uuid |-> <<"recruitment", n>>, full_name |-> r.full_name,
        email_enc |-> email.enc, email_nonce |-> email.nonce,
        email_hash |-> hash_value(HmacSecret, r.email),
        phone_number_enc |-> phone.enc, phone_number_nonce |-> phone.nonce,
        phone_number_hash |-> hash_value(HmacSecret, r.phone_number),
        description |-> r.description, created_by |-> r.created_by]

RecruitmentCreateCall(r) ==
    /\ req[r].pc = "idle"
    /\ \E recruit \in RecruitmentPayloads :
          req' = [req EXCEPT ![r] =
                    [op |-> "Recruitment::create", pc |-> "rc_is_exists",
                     recruitment |-> recruit, inserted |-> None,
                     result |-> "none"]]
    /\ UNCHANGED <<notRecruitment, recruitment, seq>>

\* Recruitment::create lines 43-45
RecruitmentIsExists(r) ==
    /\ req[r].pc = "rc_is_exists"
    /\ req' = [req EXCEPT ![r] =
                 IF RecruitmentMatches(req[r].recruitment) # {}
                 THEN Return(r, ErrCandidateExists)
                 ELSE [req[r] EXCEPT !.pc = "rc_insert"]]
    /\ UNCHANGED <<notRecruitment, recruitment, seq>>

\* Recruitment::create lines 47-78
RecruitmentInsert(r) ==
    /\ req[r].pc = "rc_insert"
    /\ IF req[r].recruitment.email = None
       THEN /\ req' = [req EXCEPT ![r] = Return(r, ErrEmailRequired)]
            /\ UNCHANGED <<recruitment, seq>>
       ELSE IF req[r].recruitment.phone_number = None
       THEN /\ req' = [req EXCEPT ![r] = Return(r, ErrPhoneRequired)]
            /\ UNCHANGED <<recruitment, seq>>
       ELSE \E n1, n2 \in Nonces :
               LET n == seq["recruitment"] + 1
                   row == RecruitmentRow(n, req[r].recruitment, n1, n2)
               IN  /\ recruitment' = recruitment \cup {row}
                   /\ seq' = [seq EXCEPT !["recruitment"] = n]
                   /\ req' = [req EXCEPT ![r] =
                                [Return(r, "Ok") EXCEPT !.inserted = row.uuid]]
    /\ UNCHANGED notRecruitment

RecruitmentModifyCall(r) ==
    /\ req[r].pc = "idle"
    /\ \E uuid \in RecruitmentUuids, updated \in RecruitmentUpdates :
          req' = [req EXCEPT ![r] =
                    [op |-> "Recruitment::modify", pc |-> "rm_get_by_uuid",
                     uuid |-> uuid, updated |-> updated, existing |-> None,
                     result |-> "none"]]
    /\ UNCHANGED <<notRecruitment, recruitment, seq>>

\* Recruitment::get_by_uuid: fetch_one, then the fields decrypted
RecruitmentGetByUuid(r) ==
    /\ req[r].pc = "rm_get_by_uuid"
    /\ LET rows == {row \in recruitment : row.uuid = req[r].uuid} IN
          \/ /\ rows = {}
             /\ req' = [req EXCEPT ![r] = Return(r, ErrDatabase)]
          \/ \E row \in rows :
                req' = [req EXCEPT ![r] =
                   [req[r] EXCEPT
                      !.pc = "rm_update",
                      !.existing =
                         [full_name |-> row.full_name,
                          email |-> decrypt_value(Key, row.email_enc,
                                                  row.email_nonce),
                          phone_number |->
                             decrypt_value(Key, row.phone_number_enc,
                                           row.phone_number_nonce),
                          created_by |-> row.created_by]]]
    /\ UNCHANGED <<notRecruitment, recruitment, seq>>

\* Recruitment::modify lines 90-133: merge with the row read, re-encrypt,
\* UPDATE ... WHERE uuid = $9
RecruitmentUpdate(r) ==
    /\ req[r].pc = "rm_update"
    /\ \E n1, n2 \in Nonces :
          LET updated == req[r].updated
              existing == req[r].existing
              full_name == Or(updated.full_name, existing.full_name)
              created_by == Or(updated.created_by, existing.created_by)
              effective_email == UnwrapOr(Or(updated.email, existing.email), "")
              effective_phone ==
                 UnwrapOr(Or(updated.phone_number, existing.phone_number), "")
              email == encrypt_value(Key, effective_email, n1)
              phone == encrypt_value(Key, effective_phone, n2)
              email_hash_opt ==
                 IF effective_email = "" THEN None
                 ELSE hash_value(HmacSecret, effective_email)
              phone_hash_opt ==
                 IF effective_phone = "" THEN None
                 ELSE hash_value(HmacSecret, effective_phone)
          IN  recruitment' =
                 {IF row.uuid = req[r].uuid
                  THEN [row EXCEPT
                          !.full_name = full_name,
                          !.email_enc = email.enc,
                          !.email_nonce = email.nonce,
                          !.email_hash = email_hash_opt,
                          !.phone_number_enc = phone.enc,
                          !.phone_number_nonce = phone.nonce,
                          !.phone_number_hash = phone_hash_opt,
                          !.created_by = created_by]
                  ELSE row : row \in recruitment}
    /\ req' = [req EXCEPT ![r] = Return(r, "Ok")]
    /\ UNCHANGED <<notRecruitment, seq>>

RecruitmentDeleteCall(r) ==
    /\ req[r].pc = "idle"
    /\ \E uuid \in RecruitmentUuids :
          req' = [req EXCEPT ![r] =
                    [op |-> "Recruitment::delete", pc |-> "rd_delete",
                     uuid |-> uuid, result |-> "none"]]
    /\ UNCHANGED <<notRecruitment, recruitment, seq>>

\* DELETE FROM recruitment WHERE uuid = $1
RecruitmentDelete(r) ==
    /\ req[r].pc = "rd_delete"
    /\ recruitment' = {row \in recruitment : row.uuid # req[r].uuid}
    /\ req' = [req EXCEPT ![r] = Return(r, "Ok")]
    /\ UNCHANGED <<notRecruitment, seq>>

\* the candidate an earlier Recruitment::create has stored
StoredCandidate ==
    RecruitmentRow(1, [full_name |-> "Kiss Eva", email |-> EmailPool[1],
                       phone_number |-> PhonePool[1], description |-> "note",
                       created_by |-> "Anna"], "nonce-000001", "nonce-000001")

\* the table is empty, or holds one candidate stored earlier
RecruitInit ==
    /\ users = InitUsers
    /\ user_info = InitUserInfo
    /\ customers = {}
    /\ customer_contracts = {}
    /\ customer_leads = {}
    /\ customer_intervention_tasks = {}
    /\ user_dates = {}
    /\ customer_recommendations = {}
    /\ recruitment \in {{}, {StoredCandidate}}
    /\ seq = [t \in TableNames |->
                IF t = "recruitment" THEN Cardinality(recruitment) ELSE 0]
    /\ req = [r \in Reqs |-> Idle]

RecruitNext ==
    \E r \in Reqs :
        \/ RecruitmentCreateCall(r)
        \/ RecruitmentIsExists(r)
        \/ RecruitmentInsert(r)
        \/ RecruitmentModifyCall(r)
        \/ RecruitmentGetByUuid(r)
        \/ RecruitmentUpdate(r)
        \/ RecruitmentDeleteCall(r)
        \/ RecruitmentDelete(r)

SpecRecruit == RecruitInit /\ [][RecruitNext]_vars

\* the emails the stored candidates decrypt to
StoredCandidateEmails ==
    {decrypt_value(Key, row.email_enc, row.email_nonce) : row \in recruitment}

\* C9: a Recruitment::create stores its candidate under the email it was
\* given, and a Recruitment::create whose existence check runs while a
\* stored candidate has email e and which presents e -- whatever phone and
\* name come with it -- returns the already-exists error in that step,
\* inserts nothing and leaves the recruitment table as it was.
C9_RecruitmentEmailDedup ==
    [][\A r \in Reqs :
          (req[r].op = "Recruitment::create" /\ Moved(r))
          => /\ (req[r].pc = "rc_is_exists"
                   /\ req[r].recruitment.email \in StoredCandidateEmails)
                => /\ req'[r].pc = "done"
                   /\ req'[r].result = ErrCandidateExists
                   /\ req'[r].inserted = None
                   /\ UNCHANGED <<recruitment, seq>>
             /\ (req[r].pc = "rc_insert" /\ req'[r].result = "Ok")
                => \E row \in recruitment' \ recruitment :
                      /\ row.uuid = req'[r].inserted
                      /\ decrypt_value(Key, row.email_enc, row.email_nonce)
                            = req[r].recruitment.email
                      /\ recruitment' = recruitment \cup {row}]_vars

\* a first create has stored a candidate, and a later create with the same
\* email, another phone and another name has been refused: the table holds
\* the first candidate only
C9_Witness ==
    \E r, o \in Reqs :
        /\ req[r].op = "Recruitment::create" /\ req[r].result = "Ok"
        /\ req[o].op = "Recruitment::create"
        /\ req[o].result = ErrCandidateExists
        /\ req[o].recruitment.email = req[r].recruitment.email
        /\ req[o].recruitment.phone_number \notin
              {None, req[r].recruitment.phone_number}
        /\ req[o].recruitment.full_name # req[r].recruitment.full_name
        /\ \E row \in recruitment :
              /\ recruitment = {row}
              /\ row.uuid = req[r].inserted
              /\ row.full_name = req[r].recruitment.full_name

-----------------------------------------------------------------------------
(***************************************************************************)
(* modify of the four entities with sensitive fields: Customer and         *)
(* UserMeetDate write what the caller passed, Recruitment and              *)
(* CustomerRecommendation read the stored row first and merge.             *)
(***************************************************************************)
\* the Customer values modify is called with: any field may be omitted
CustomerUpdates ==
    [full_name : {None, "Nagy Adam"}, email : Emails \cup {None},
     phone_number : Phones \cup {None}, address : {None, "Szeged"}]

CustomerModifyCall(r) ==
    /\ req[r].pc = "idle"
    /\ \E updated \in CustomerUpdates :
          req' = [req EXCEPT ![r] =
                    [op |-> "Customer::modify", pc |-> "cm_update",
                     uuid |-> <<"customers", 1>>, updated |-> updated,
                     result |-> "none"]]
    /\ UNCHANGED <<users, user_info, tables, others>>

\* a modify that rewrites the blind indexes and leaves the ciphertexts
CustomerModifyHashesOnly(r) ==
    /\ req[r].pc = "cm_update"
    /\ IF req[r].updated.full_name = None
       THEN /\ req' = [req EXCEPT ![r] = Return(r, ErrDatabase)]
            /\ UNCHANGED customers
       ELSE /\ LET updated_customer == req[r].updated
                   email == UnwrapOr(updated_customer.email, "")
                   phone == UnwrapOr(updated_customer.phone_number, "")
               IN  customers' =
                      {IF row.uuid = req[r].uuid
                       THEN [row EXCEPT
                               !.full_name = updated_customer.full_name,
                               !.phone_number_hash =
                                  hash_value(HmacSecret, phone),
                               !.email_hash = hash_value(HmacSecret, email)]
                       ELSE row : row \in customers}
            /\ req' = [req EXCEPT ![r] = Return(r, "Ok")]
    /\ UNCHANGED <<users, user_info, others, seq, customer_contracts,
                   customer_leads, customer_intervention_tasks>>

\* Customer::modify: one UPDATE ... WHERE uuid = $10.  full_name is bound as
\* it was passed; the column is read back as a plain String everywhere, so
\* it is NOT NULL and a None is refused by the database.
CustomerModify(r) ==
    /\ req[r].pc = "cm_update"
    /\ IF req[r].updated.full_name = None
       THEN /\ req' = [req EXCEPT ![r] = Return(r, ErrDatabase)]
            /\ UNCHANGED customers
       ELSE /\ \E n1, n2, n3 \in Nonces :
                  LET updated_customer == req[r].updated
                      email == UnwrapOr(updated_customer.email, "")
                      phone == UnwrapOr(updated_customer.phone_number, "")
                      address == UnwrapOr(updated_customer.address, "")
                      email_c == encrypt_value(Key, email, n1)
                      phone_c == encrypt_value(Key, phone, n2)
                      address_c == encrypt_value(Key, address, n3)
                  IN  customers' =
                         {IF row.uuid = req[r].uuid
                          THEN [row EXCEPT
                                  !.full_name = updated_customer.full_name,
                                  !.phone_number_enc = phone_c.enc,
                                  !.phone_number_nonce = phone_c.nonce,
                                  !.phone_number_hash =
                                     hash_value(HmacSecret, phone),
                                  !.email_enc = email_c.enc,
                                  !.email_nonce = email_c.nonce,
                                  !.email_hash = hash_value(HmacSecret, email),
                                  !.address_enc = address_c.enc,
                                  !.address_nonce = address_c.nonce]
                          ELSE row : row \in customers}
            /\ req' = [req EXCEPT ![r] = Return(r, "Ok")]
    /\ UNCHANGED <<users, user_info, others, seq, customer_contracts,
                   customer_leads, customer_intervention_tasks>>

(* models/user_date.rs *)
UserMeetDateRow(id, date, user_id, n1) ==
    LET phone == encrypt_value(Key, date.phone_number, n1)
    IN [id |-> id, uuid |-> <<"user_dates", id>>,
        meet_date |-> date.meet_date, full_name |-> date.full_name,
        phone_number_enc |-> phone.enc, phone_number_nonce |-> phone.nonce,
        phone_number_hash |-> hash_value(HmacSecret, date.phone_number),
        meet_location |-> date.meet_location, meet_type |-> date.meet_type,
        created_by |-> date.created_by, user_id |-> user_id]

UserMeetDateUpdates ==
    [meet_date : {"2026-01-12T10:00"}, full_name : {None, "Nagy Adam"},
     phone_number : Phones \cup {None}, meet_location : {None, "Szeged"},
     meet_type : {"Consultation"}]

UserMeetDateModifyCall(r) ==
    /\ req[r].pc = "idle"
    /\ \E updated \in UserMeetDateUpdates :
          req' = [req EXCEPT ![r] =
                    [op |-> "UserMeetDate::modify", pc |-> "um_update",
                     uuid |-> <<"user_dates", 1>>, updated |-> updated,
                     result |-> "none"]]
    /\ UNCHANGED <<users, user_info, tables, others>>

\* UserMeetDate::modify: one UPDATE ... WHERE uuid = $8; full_name and
\* meet_location are NOT NULL columns, as for customers.full_name
UserMeetDateModify(r) ==
    /\ req[r].pc = "um_update"
    /\ IF None \in {req[r].updated.full_name, req[r].updated.meet_location}
       THEN /\ req' = [req EXCEPT ![r] = Return(r, ErrDatabase)]
            /\ UNCHANGED user_dates
       ELSE /\ \E n1 \in Nonces :
                  LET updated_user_date == req[r].updated
                      phone == UnwrapOr(updated_user_date.phone_number, "")
                      phone_c == encrypt_value(Key, phone, n1)
                  IN  user_dates' =
                         {IF row.uuid = req[r].uuid
                          THEN [row EXCEPT
                                  !.meet_date = updated_user_date.meet_date,
                                  !.full_name = updated_user_date.full_name,
                                  !.phone_number_enc = phone_c.enc,
                                  !.phone_number_nonce = phone_c.nonce,
                                  !.phone_number_hash =
                                     hash_value(HmacSecret, phone),
                                  !.meet_location =
                                     updated_user_date.meet_location,
                                  !.meet_type = updated_user_date.meet_type]
                          ELSE row : row \in user_dates}
            /\ req' = [req EXCEPT ![r] = Return(r, "Ok")]
    /\ UNCHANGED <<users, user_info, tables, recruitment,
                   customer_recommendations>>

(* models/recommendation.rs *)
RecommendationRow(n, rec, user_id, n1, n2) ==
    LET phone == encrypt_value(Key, rec.phone_number, n1)
        city == encrypt_value(Key, rec.city, n2)
    IN [uuid |-> <<"customer_recommendations", n>>,
        full_name |-> rec.full_name,
        phone_number_enc |-> phone.enc, phone_number_nonce |-> phone.nonce,
        phone_number_hash |-> hash_value(HmacSecret, rec.phone_number),
        city_enc |-> city.enc, city_nonce |-> city.nonce,
        referral_name |-> rec.referral_name, user_id |-> user_id,
        created_by |-> rec.created_by]

RecommendationUpdates ==
    [full_name : {None, "Nagy Adam"}, phone_number : Phones \cup {None},
     city : {None, "Szeged"}, referral_name : {None}, created_by : {None}]

RecommendationUuids ==
    {<<"customer_recommendations", 1>>, <<"customer_recommendations", 2>>}

RecommendationModifyCall(r) ==
    /\ req[r].pc = "idle"
    /\ \E uuid \in RecommendationUuids, updated \in RecommendationUpdates :
          req' = [req EXCEPT ![r] =
                    [op |-> "CustomerRecommendation::modify",
                     pc |-> "pm_get_by_uuid", uuid |-> uuid,
                     updated |-> updated, existing |-> None,
                     result |-> "none"]]
    /\ UNCHANGED <<users, user_info, tables, others>>

\* CustomerRecommendation::get_by_uuid: fetch_one, then the fields decrypted
RecommendationGetByUuid(r) ==
    /\ req[r].pc = "pm_get_by_uuid"
    /\ LET rows == {row \in customer_recommendations :
                       row.uuid = req[r].uuid} IN
          \/ /\ rows = {}
             /\ req' = [req EXCEPT ![r] = Return(r, ErrDatabase)]
          \/ \E row \in rows :
                req' = [req EXCEPT ![r] =
                   [req[r] EXCEPT
                      !.pc = "pm_update",
                      !.existing =
                         [full_name |-> row.full_name,
                          phone_number |->
                             decrypt_value(Key, row.phone_number_enc,
                                           row.phone_number_nonce),
                          city |-> decrypt_value(Key, row.city_enc,
                                                 row.city_nonce),
                          referral_name |-> row.referral_name,
                          created_by |-> row.created_by]]]
    /\ UNCHANGED <<users, user_info, tables, others>>

\* CustomerRecommendation::modify lines 117-156
RecommendationUpdate(r) ==
    /\ req[r].pc = "pm_update"
    /\ \E n1, n2 \in Nonces :
          LET updated == req[r].updated
              existing == req[r].existing
              full_name == Or(updated.full_name, existing.full_name)
              effective_phone ==
                 UnwrapOr(Or(updated.phone_number, existing.phone_number), "")
              effective_city == UnwrapOr(Or(updated.city, existing.city), "")
              referral_name ==
                 Or(updated.referral_name, existing.referral_name)
              created_by == Or(updated.created_by, existing.created_by)
              phone == encrypt_value(Key, effective_phone, n1)
              phone_hash_opt ==
                 IF effective_phone = "" THEN None
                 ELSE hash_value(HmacSecret, effective_phone)
              city == encrypt_value(Key, effective_city, n2)
          IN  customer_recommendations' =
                 {IF row.uuid = req[r].uuid
                  THEN [row EXCEPT
                          !.full_name = full_name,
                          !.phone_number_enc = phone.enc,
                          !.phone_number_nonce = phone.nonce,
                          !.phone_number_hash = phone_hash_opt,
                          !.city_enc = city.enc,
                          !.city_nonce = city.nonce,
                          !.referral_name = referral_name,
                          !.created_by = created_by]
                  ELSE row : row \in customer_recommendations}
    /\ req' = [req EXCEPT ![r] = Return(r, "Ok")]
    /\ UNCHANGED <<users, user_info, tables, recruitment, user_dates>>

\* A store holding one record of each entity, as create leaves them.
ModifyInit ==
    /\ users = InitUsers
    /\ user_info = InitUserInfo
    /\ customers =
          {CustomerRow(1, [full_name |-> "Kiss Eva",
                           phone_number |-> PhonePool[1],
                           email |-> EmailPool[1], address |-> "Budapest",
                           created_by |-> "Anna"], 1,
                       "nonce-000001", "nonce-000001", "nonce-000001")}
    /\ customer_contracts = {}
    /\ customer_leads = {}
    /\ customer_intervention_tasks = {}
    /\ recruitment = {StoredCandidate}
    /\ user_dates =
          {UserMeetDateRow(1, [meet_date |-> "2026-01-05T09:00",
                               full_name |-> "Kiss Eva",
                               phone_number |-> PhonePool[1],
                               meet_location |-> "Budapest",
                               meet_type |-> "NeedsAssessment",
                               created_by |-> "Anna"], 1, "nonce-000001")}
    /\ customer_recommendations =
          {RecommendationRow(1, [full_name |-> "Kiss Eva",
                                 phone_number |-> PhonePool[1],
                                 city |-> "Budapest",
                                 referral_name |-> "Nagy Adam",
                                 created_by |-> "Anna"], 1,
                             "nonce-000001", "nonce-000001")}
    /\ seq = [t \in TableNames |->
                IF t \in {"customers", "recruitment", "user_dates",
                          "customer_recommendations"} THEN 1 ELSE 0]
    /\ req = [r \in Reqs |-> Idle]

\* modify calls that do not overlap
ModifyNext ==
    \E r \in Reqs :
        \/ NoOtherInFlight(r) /\ CustomerModifyCall(r)
        \/ NoOtherInFlight(r) /\ CustomerModify(r)
        \/ NoOtherInFlight(r) /\ UserMeetDateModifyCall(r)
        \/ NoOtherInFlight(r) /\ UserMeetDateModify(r)
        \/ NoOtherInFlight(r) /\ RecruitmentModifyCall(r)
        \/ NoOtherInFlight(r) /\ RecruitmentGetByUuid(r)
        \/ NoOtherInFlight(r) /\ RecruitmentUpdate(r)
        \/ NoOtherInFlight(r) /\ RecommendationModifyCall(r)
        \/ NoOtherInFlight(r) /\ RecommendationGetByUuid(r)
        \/ NoOtherInFlight(r) /\ RecommendationUpdate(r)

SpecModify == ModifyInit /\ [][ModifyNext]_vars

ModifyOps == {"Customer::modify", "UserMeetDate::modify",
              "Recruitment::modify", "CustomerRecommendation::modify"}

ModifiedTable(op) ==
    CASE op = "Customer::modify" -> customers
      [] op = "UserMeetDate::modify" -> user_dates
      [] op = "Recruitment::modify" -> recruitment
      [] op = "CustomerRecommendation::modify" -> customer_recommendations

SensitiveFields(op) ==
    CASE op = "Customer::modify" -> {"phone_number", "email", "address"}
      [] op = "UserMeetDate::modify" -> {"phone_number"}
      [] op = "Recruitment::modify" -> {"phone_number", "email"}
      [] op = "CustomerRecommendation::modify" -> {"phone_number", "city"}

\* what a sensitive field of a stored row decrypts to
Decrypted(row, field) ==
    CASE field = "phone_number" ->
            decrypt_value(Key, row.phone_number_enc, row.phone_number_nonce)
      [] field = "email" -> decrypt_value(Key, row.email_enc, row.email_nonce)
      [] field = "address" ->
            decrypt_value(Key, row.address_enc, row.address_nonce)
      [] field = "city" -> decrypt_value(Key, row.city_enc, row.city_nonce)

\* C10 as claimed: for each of Customer, UserMeetDate, Recruitment and
\* CustomerRecommendation, a step of a modify call that omitted a sensitive
\* field leaves the record's decrypted value of that field as it was.
C10_AsClaimed ==
    [][\A r \in Reqs :
          (req[r].op \in ModifyOps /\ Moved(r))
          => \A row \in ModifiedTable(req[r].op) :
                \A now \in ModifiedTable(req[r].op)' :
                   (row.uuid = req[r].uuid /\ now.uuid = row.uuid)
                   => \A field \in SensitiveFields(req[r].op) :
                         req[r].updated[field] = None
                         => Decrypted(now, field) = Decrypted(row, field)]_vars

-----------------------------------------------------------------------------
(***************************************************************************)
(* utils/encrypt.rs on its own: a value is encrypted, the pair is stored,  *)
(* and what is later handed to decrypt_value is the stored pair or         *)
(* something else.  The cipher is the ideal one: a ciphertext              *)
(* authenticates under a key and a nonce exactly when encrypt_value        *)
(* produced it under that key and that nonce.                              *)
(***************************************************************************)
CipherKeys == {Key, "key-2"}

\* the nonces OsRng draws
CipherNonces == {"nonce-000001", "nonce-000002"}

\* the strings that get encrypted; the empty string is one of them
Plaintexts == Emails \cup {""}

\* byte strings that are no nonce: one byte short, one byte long
MalformedNonces == {"nonce-00001", "nonce-0000001"}

\* a ciphertext with a flipped bit: no encrypt_value call produces it
Garbled(ciphertext) == <<"garbled", ciphertext>>

\* the pairs encrypt_value produces under key
ProducedPairs(key) ==
    {encrypt_value(key, plaintext, nonce) :
        plaintext \in Plaintexts, nonce \in CipherNonces}

\* encrypt_value(key, plaintext): the nonce is drawn inside
EncryptValue(r) ==
    /\ req[r].pc = "idle"
    /\ \E key \in CipherKeys, plaintext \in Plaintexts, nonce \in CipherNonces :
          LET pair == encrypt_value(key, plaintext, nonce) IN
          req' = [req EXCEPT ![r] =
                    [op |-> "encrypt_value", pc |-> "stored", key |-> key,
                     plaintext |-> plaintext, ciphertext |-> pair.enc,
                     nonce |-> pair.nonce, result |-> "none"]]
    /\ UNCHANGED <<users, user_info, tables, others>>

\* what a later read hands to decrypt_value instead of the stored ciphertext
CiphertextsFor(r) ==
    {req[r].ciphertext, Garbled(req[r].ciphertext)}
    \cup {pair.enc : pair \in ProducedPairs(req[r].key)}

DecryptValue(r) ==
    /\ req[r].pc = "stored"
    /\ \E key \in CipherKeys, ciphertext \in CiphertextsFor(r),
          nonce \in CipherNonces \cup MalformedNonces :
          req' = [req EXCEPT ![r] =
                    [op |-> "decrypt_value", pc |-> "done",
                     key |-> req[r].key, plaintext |-> req[r].plaintext,
                     ciphertext |-> req[r].ciphertext,
                     nonce |-> req[r].nonce,
                     given |-> [key |-> key, ciphertext |-> ciphertext,
                                nonce |-> nonce],
                     result |-> decrypt_value(key, ciphertext, nonce)]]
    /\ UNCHANGED <<users, user_info, tables, others>>

CipherNext ==
    \E r \in Reqs :
        \/ EncryptValue(r)
        \/ DecryptValue(r)

SpecCipher == Init /\ [][CipherNext]_vars

\* the decrypt_value call of slot r got back what encrypt_value had returned
GivenAsStored(r) ==
    /\ req[r].given.key = req[r].key
    /\ req[r].given.ciphertext = req[r].ciphertext
    /\ req[r].given.nonce = req[r].nonce

C12_AsClaimed ==
    \A r \in Reqs :
        req[r].op = "decrypt_value"
        => LET given == req[r].given
               pair == [enc |-> given.ciphertext, nonce |-> given.nonce]
           IN  IF pair \in ProducedPairs(given.key)
               THEN pair = encrypt_value(given.key, req[r].result,
                                         given.nonce)
               ELSE req[r].result = None

-----------------------------------------------------------------------------
(***************************************************************************)
(* The blind index of stored customers (Spec)                              *)
(***************************************************************************)
\* a phone number no customer was stored with
UnknownPhone == "+0000"

-----------------------------------------------------------------------------
(***************************************************************************)
(* models/user.rs, User::create: the users row and the user_info row are   *)
(* inserted inside one transaction.  What a transaction has written is     *)
(* held by the request until the commit; every other query reads the       *)
(* committed tables.  A statement may fail, and the request may be dropped *)
(* at any suspension point (the caller disconnects, the server stops):     *)
(* the transaction is then dropped without a commit, which rolls it back.  *)
(***************************************************************************)
ErrUserExists == "Err: Ez az e-mail cim vagy felhasznalonev mar letezik."

\* the request was dropped at a suspension point: nothing is returned
Dropped == "<dropped>"

\* the User values create is called with
NewUsers ==
    [email : {"cili@niro.hu", "anna@niro.hu"}, username : {"cili"},
     password : {"pw", None}, full_name : {"Cili", "Bela"},
     manager_uuid : {None, "uM", "u0"}]

\* the uuid the database generates for a new users row: fresh for every row
NewUserUuid(id) == CASE id = 5 -> "u5" [] id = 6 -> "u6" [] OTHER -> "u7"

UserCreateCall(r) ==
    /\ req[r].pc = "idle"
    /\ \E new_user \in NewUsers :
          req' = [req EXCEPT ![r] =
                    [op |-> "User::create", pc |-> "uc_is_exists",
                     new_user |-> new_user, manager_id |-> NoId,
                     user_id |-> NoId, tx_users |-> {}, tx_user_info |-> {},
                     result |-> "none"]]
    /\ UNCHANGED <<users, user_info, tables, others>>

\* User::is_exists, then the password is unwrapped and hashed
UserIsExists(r) ==
    /\ req[r].pc = "uc_is_exists"
    /\ LET new_user == req[r].new_user
           found == \E u \in users : \/ u.email = new_user.email
                                     \/ u.username = new_user.username
       IN  req' = [req EXCEPT ![r] =
                     IF found THEN Return(r, ErrUserExists)
                     ELSE IF new_user.password = None THEN Return(r, Panic)
                     ELSE [req[r] EXCEPT !.pc = "uc_begin"]]
    /\ UNCHANGED <<users, user_info, tables, others>>

\* db.pool.begin()
UserBegin(r) ==
    /\ req[r].pc = "uc_begin"
    /\ \/ req' = [req EXCEPT ![r] = [req[r] EXCEPT !.pc = "uc_get_manager"]]
       \/ req' = [req EXCEPT ![r] = Return(r, ErrDatabase)]
    /\ UNCHANGED <<users, user_info, tables, others>>

\* Self::get_id_by_uuid(db, new_user.manager_uuid), on the pool
UserGetManager(r) ==
    /\ req[r].pc = "uc_get_manager"
    /\ \/ req' = [req EXCEPT ![r] =
                    [req[r] EXCEPT
                       !.pc = "uc_insert_users",
                       !.manager_id =
                          UserGetIdByUuid(req[r].new_user.manager_uuid)]]
       \/ req' = [req EXCEPT ![r] = Return(r, ErrDatabase)]
    /\ UNCHANGED <<users, user_info, tables, others>>

\* an INSERT that takes the role from the manager id the lookup found
\* instead of from the manager_uuid of the payload
UserInsertUsersRoleByManagerId(r) ==
    /\ req[r].pc = "uc_insert_users"
    /\ \/ LET id == seq["users"] + 1
              new_user == req[r].new_user
              row == [id |-> id, uuid |-> NewUserUuid(id),
                      email |-> new_user.email,
                      username |-> new_user.username,
                      user_role |-> IF req[r].manager_id # NoId
                                    THEN "Agent" ELSE "Manager",
                      manager_id |-> req[r].manager_id]
          IN  /\ seq' = [seq EXCEPT !["users"] = id]
              /\ req' = [req EXCEPT ![r] =
                           [req[r] EXCEPT !.pc = "uc_insert_info",
                                          !.user_id = id,
                                          !.tx_users = {row}]]
       \/ /\ req' = [req EXCEPT ![r] = Return(r, ErrDatabase)]
          /\ UNCHANGED seq
    /\ UNCHANGED <<users, user_info, customers, customer_contracts,
                   customer_leads, customer_intervention_tasks, others>>

\* an INSERT executed on the pool: committed at once
UserInsertUsersOnPool(r) ==
    /\ req[r].pc = "uc_insert_users"
    /\ LET id == seq["users"] + 1
           new_user == req[r].new_user
           row == [id |-> id, uuid |-> NewUserUuid(id),
                   email |-> new_user.email, username |-> new_user.username,
                   user_role |-> IF new_user.manager_uuid # None
                                 THEN "Agent" ELSE "Manager",
                   manager_id |-> req[r].manager_id]
       IN  /\ seq' = [seq EXCEPT !["users"] = id]
           /\ users' = users \cup {row}
           /\ req' = [req EXCEPT ![r] =
                        [req[r] EXCEPT !.pc = "uc_insert_info",
                                       !.user_id = id]]
    /\ UNCHANGED <<user_info, customers, customer_contracts, customer_leads,
                   customer_intervention_tasks, others>>

\* INSERT INTO users ... RETURNING id, executed on the transaction.  The id
\* comes from the sequence, which a rollback does not reset.
UserInsertUsers(r) ==
    /\ req[r].pc = "uc_insert_users"
    /\ \/ LET id == seq["users"] + 1
              new_user == req[r].new_user
              row == [id |-> id, uuid |-> NewUserUuid(id),
                      email |-> new_user.email,
                      username |-> new_user.username,
                      user_role |-> IF new_user.manager_uuid # None
                                    THEN "Agent" ELSE "Manager",
                      manager_id |-> req[r].manager_id]
          IN  /\ seq' = [seq EXCEPT !["users"] = id]
              /\ req' = [req EXCEPT ![r] =
                           [req[r] EXCEPT !.pc = "uc_insert_info",
                                          !.user_id = id,
                                          !.tx_users = {row}]]
       \/ /\ req' = [req EXCEPT ![r] = Return(r, ErrDatabase)]
          /\ UNCHANGED seq
    /\ UNCHANGED <<users, user_info, customers, customer_contracts,
                   customer_leads, customer_intervention_tasks, others>>

\* INSERT INTO user_info ..., executed on the transaction
UserInsertInfo(r) ==
    /\ req[r].pc = "uc_insert_info"
    /\ \/ req' = [req EXCEPT ![r] =
                    [req[r] EXCEPT
                       !.pc = "uc_commit",
                       !.tx_user_info =
                          {[user_id |-> req[r].user_id,
                            full_name |-> req[r].new_user.full_name]}]]
       \/ req' = [req EXCEPT ![r] =
                    [Return(r, ErrDatabase) EXCEPT !.tx_users = {}]]
    /\ UNCHANGED <<users, user_info, tables, others>>

\* tx.commit(): both rows become visible in one step, or none does
UserCommit(r) ==
    /\ req[r].pc = "uc_commit"
    /\ \/ /\ users' = users \cup req[r].tx_users
          /\ user_info' = user_info \cup req[r].tx_user_info
          /\ req' = [req EXCEPT ![r] =
                       [Return(r, "Ok") EXCEPT !.tx_users = {},
                                               !.tx_user_info = {}]]
       \/ /\ req' = [req EXCEPT ![r] =
                       [Return(r, ErrDatabase) EXCEPT !.tx_users = {},
                                                      !.tx_user_info = {}]]
          /\ UNCHANGED <<users, user_info>>
    /\ UNCHANGED <<tables, others>>

\* the future of the request is dropped while it waits on a query
UserCreateDropped(r) ==
    /\ req[r].op = "User::create"
    /\ req[r].pc \notin {"idle", "done"}
    /\ req' = [req EXCEPT ![r] =
                 [Return(r, Dropped) EXCEPT !.tx_users = {},
                                            !.tx_user_info = {}]]
    /\ UNCHANGED <<users, user_info, tables, others>>

UserInit ==
    /\ users = InitUsers
    /\ user_info = InitUserInfo
    /\ customers = {}
    /\ customer_contracts = {}
    /\ customer_leads = {}
    /\ customer_intervention_tasks = {}
    /\ recruitment = {}
    /\ user_dates = {}
    /\ customer_recommendations = {}
    /\ seq = [t \in TableNames \cup {"users"} |->
                IF t = "users" THEN Cardinality(InitUsers) ELSE 0]
    /\ req = [r \in Reqs |-> Idle]

UserNext ==
    \E r \in Reqs :
        \/ UserCreateCall(r)
        \/ UserIsExists(r)
        \/ UserBegin(r)
        \/ UserGetManager(r)
        \/ UserInsertUsers(r)
        \/ UserInsertInfo(r)
        \/ UserCommit(r)
        \/ UserCreateDropped(r)

SpecUser == UserInit /\ [][UserNext]_vars

\* C14: in every state -- while a User::create is between its inserts,
\* after either insert or the commit has failed, after the request was
\* dropped -- the stored users rows and the stored user_info rows are for
\* the same users: a row of one table for a user id exists if and only if
\* the row of the other exists.
C14_UserCreateAtomic ==
    {u.id : u \in users} = {i.user_id : i \in user_info}

\* one User::create has committed its two rows; another got its users row
\* into its transaction and then failed or was dropped, and left nothing
C14_Witness ==
    \E r, o \in Reqs :
        /\ req[r].op = "User::create" /\ req[r].result = "Ok"
        /\ req[r].user_id \in {u.id : u \in users}
        /\ req[r].user_id \in {i.user_id : i \in user_info}
        /\ req[o].op = "User::create"
        /\ req[o].result \in {ErrDatabase, Dropped}
        /\ req[o].user_id # NoId
        /\ req[o].user_id \notin {u.id : u \in users}
        /\ req[o].user_id \notin {i.user_id : i \in user_info}

-----------------------------------------------------------------------------
(***************************************************************************)
(* scopes/user.rs modify_user_manager and models/user.rs                   *)
(* User::modify_manager: a Leader-gated request that rewrites the manager  *)
(* link and, with it, the stored role of a user.  The same gate as above   *)
(* guards it, and it runs next to another gated request.                   *)
(***************************************************************************)
ErrInvalidUserId == "Err: Invalid user_id"

\* user_uuid of the request: an agent, the leader, and a uuid of no user
ManagedUuids == {"uA", "uL", "u0"}

\* user.manager_uuid of the request: none, the manager, a uuid of no user
ManagerUuids == {None, "uM", "u0"}

\* what `user_role = DEFAULT` stores: the column default of the schema,
\* which the source does not show -- any of the role names
UserRoleDefaults == {UserRoles[i] : i \in DOMAIN UserRoles}

ModifyUserManagerCall(r) ==
    /\ req[r].pc = "idle"
    /\ \E actor \in ActorIds, user_uuid \in ManagedUuids,
          manager_uuid \in ManagerUuids :
          req' = [req EXCEPT ![r] =
                    [op |-> "modify_user_manager", pc |-> "require_role",
                     actor |-> actor, min_role |-> "Leader",
                     user_role |-> None, user_uuid |-> user_uuid,
                     manager_uuid |-> manager_uuid, user_id |-> NoId,
                     manager_id |-> NoId, result |-> "none"]]
    /\ UNCHANGED <<users, user_info, tables, others>>

\* Self::get_id_by_uuid(db, Some(user_uuid)).await?.unwrap()
UserModifyManagerGetId(r) ==
    /\ req[r].pc = "mm_get_id"
    /\ LET user_id == UserGetIdByUuid(req[r].user_uuid) IN
          req' = [req EXCEPT ![r] =
                    IF user_id = NoId THEN Return(r, Panic)
                    ELSE [req[r] EXCEPT !.pc = "mm_is_exists",
                                        !.user_id = user_id]]
    /\ UNCHANGED <<users, user_info, tables, others>>

\* User::is_exists_by_id
UserModifyManagerIsExists(r) ==
    /\ req[r].pc = "mm_is_exists"
    /\ req' = [req EXCEPT ![r] =
                 IF \E u \in users : u.id = req[r].user_id
                 THEN [req[r] EXCEPT !.pc = "mm_get_manager"]
                 ELSE Return(r, ErrInvalidUserId)]
    /\ UNCHANGED <<users, user_info, tables, others>>

\* Self::get_id_by_uuid(db, user.manager_uuid)
UserModifyManagerGetManager(r) ==
    /\ req[r].pc = "mm_get_manager"
    /\ req' = [req EXCEPT ![r] =
                 [req[r] EXCEPT
                    !.pc = "mm_update",
                    !.manager_id = UserGetIdByUuid(req[r].manager_uuid)]]
    /\ UNCHANGED <<users, user_info, tables, others>>

\* the UPDATE of either branch, executed on the pool
UserModifyManagerUpdate(r) ==
    /\ req[r].pc = "mm_update"
    /\ \E user_role \in IF req[r].manager_id # NoId THEN UserRoleDefaults
                        ELSE {"Manager"} :
          users' = {IF u.id = req[r].user_id
                    THEN [u EXCEPT !.manager_id = req[r].manager_id,
                                   !.user_role = user_role]
                    ELSE u : u \in users}
    /\ req' = [req EXCEPT ![r] = Return(r, "Ok")]
    /\ UNCHANGED <<user_info, tables, others>>

RoleNext ==
    \E r \in Reqs :
        \/ ModifyUserManagerCall(r)
        \/ PortfolioChartCall(r)
        \/ RequireRole(r)
        \/ UserModifyManagerGetId(r)
        \/ UserModifyManagerIsExists(r)
        \/ UserModifyManagerGetManager(r)
        \/ UserModifyManagerUpdate(r)
        \/ PortfolioChart(r)

SpecRole == GateInit /\ [][RoleNext]_vars

\* the role the users table holds for user_id in the current state
RoleNow(user_id) == (CHOOSE u \in users : u.id = user_id).user_role

\* C15: every step of the gate decides on the role the users table holds for
\* the actor at that step, whatever the role was at an earlier request of
\* the same actor: the role it records is the stored one, and the request is
\* let through exactly when that role meets min_role.
C15_GateReadsCurrentRole ==
    [][\A r \in Reqs :
          (req[r].pc = "require_role" /\ Moved(r) /\ ActorExists(r))
          => /\ req'[r].user_role = RoleNow(req[r].actor)
             /\ (req'[r].pc # "done") =
                   (UserRoleOrd(RoleNow(req[r].actor))
                       >= UserRoleOrd(req[r].min_role))
             /\ req'[r].pc = "done" => req'[r].result = ErrForbidden]_vars

\* the leader passed the Leader gate and User::modify_manager made them a
\* manager; their next request was turned away at the Leader gate
C15_Witness ==
    \E r, o \in Reqs :
        /\ req[r].op = "modify_user_manager" /\ req[r].actor = 4
        /\ req[r].user_role = "Leader" /\ req[r].user_uuid = "uL"
        /\ req[r].result = "Ok"
        /\ RoleNow(4) = "Manager"
        /\ req[o].op = "modify_user_manager" /\ req[o].actor = 4
        /\ req[o].user_role = "Manager"
        /\ req[o].result = ErrForbidden

-----------------------------------------------------------------------------
(***************************************************************************)
(* Functions that resolve a uuid to an internal id and unwrap the answer:  *)
(* Customer::delete, Lead::get_by_customer_uuid, User::modify_info and     *)
(* User::get_users_by_id, called with uuids of stored and of missing rows. *)
(***************************************************************************)
ErrNoCustomer == "Err: Nem letezo ugyfel"
ErrNoUser == "Err: Felhasznalo nem letezik"

\* customers.id by customers.uuid (fetch_optional): NoId when no row matches
CustomerGetIdByUuid(customer_uuid) ==
    IF \E c \in customers : c.uuid = customer_uuid
    THEN (CHOOSE c \in customers : c.uuid = customer_uuid).id
    ELSE NoId

\* customer uuids a request names: the customer without dependent rows, a
\* customer with leads, and a uuid of no customer
StoredCustomerUuid == <<"customers", NumRecords>>
LeadCustomerUuid == <<"customers", 1>>
MissingCustomerUuid == <<"customers", 0>>

\* customer_ids of Customer::delete: one or two uuids
CustomerIdLists ==
    LET uuids == {StoredCustomerUuid, MissingCustomerUuid} IN
    {<<u>> : u \in uuids} \cup {<<u, v>> : u \in uuids, v \in uuids}

CustomerDeleteCall(r) ==
    /\ req[r].pc = "idle"
    /\ \E customer_ids \in CustomerIdLists :
          req' = [req EXCEPT ![r] =
                    [op |-> "Customer::delete", pc |-> "cd_get_id",
                     customer_ids |-> customer_ids, customer_id |-> NoId,
                     result |-> "none"]]
    /\ UNCHANGED <<users, user_info, tables, others>>

\* Self::get_id_by_uuid(db, Some(customer_uuid)).await?.unwrap()
CustomerDeleteGetId(r) ==
    /\ req[r].pc = "cd_get_id"
    /\ LET customer_id == CustomerGetIdByUuid(Head(req[r].customer_ids)) IN
          req' = [req EXCEPT ![r] =
                    IF customer_id = NoId THEN Return(r, Panic)
                    ELSE [req[r] EXCEPT !.pc = "cd_is_exists",
                                        !.customer_id = customer_id]]
    /\ UNCHANGED <<users, user_info, tables, others>>

\* Customer::is_exists_by_id
CustomerDeleteIsExists(r) ==
    /\ req[r].pc = "cd_is_exists"
    /\ req' = [req EXCEPT ![r] =
                 IF \E c \in customers : c.id = req[r].customer_id
                 THEN [req[r] EXCEPT !.pc = "cd_delete"]
                 ELSE Return(r, ErrNoCustomer)]
    /\ UNCHANGED <<users, user_info, tables, others>>

\* DELETE FROM customers WHERE id = $1, then the next uuid of the list
CustomerDeleteRow(r) ==
    /\ req[r].pc = "cd_delete"
    /\ customers' = {c \in customers : c.id # req[r].customer_id}
    /\ LET rest == Tail(req[r].customer_ids) IN
          req' = [req EXCEPT ![r] =
                    IF rest = <<>>
                    THEN [Return(r, "Ok") EXCEPT !.customer_ids = rest]
                    ELSE [req[r] EXCEPT !.pc = "cd_get_id",
                                        !.customer_ids = rest]]
    /\ UNCHANGED <<users, user_info, others, seq, customer_contracts,
                   customer_leads, customer_intervention_tasks>>

LeadGetByCustomerUuidCall(r) ==
    /\ req[r].pc = "idle"
    /\ \E customer_uuid \in {LeadCustomerUuid, StoredCustomerUuid,
                             MissingCustomerUuid} :
          req' = [req EXCEPT ![r] =
                    [op |-> "Lead::get_by_customer_uuid", pc |-> "lg_get_id",
                     customer_uuid |-> customer_uuid, customer_id |-> NoId,
                     items |-> {}, result |-> "none"]]
    /\ UNCHANGED <<users, user_info, tables, others>>

\* Customer::get_id_by_uuid(db, Some(customer_uuid)).await?.unwrap()
LeadGetByCustomerUuidGetId(r) ==
    /\ req[r].pc = "lg_get_id"
    /\ LET customer_id == CustomerGetIdByUuid(req[r].customer_uuid) IN
          req' = [req EXCEPT ![r] =
                    IF customer_id = NoId THEN Return(r, Panic)
                    ELSE [req[r] EXCEPT !.pc = "lg_select",
                                        !.customer_id = customer_id]]
    /\ UNCHANGED <<users, user_info, tables, others>>

\* SELECT ... FROM customer_leads WHERE customer_id = $1
LeadGetByCustomerUuidSelect(r) ==
    /\ req[r].pc = "lg_select"
    /\ req' = [req EXCEPT ![r] =
                 [Return(r, "Ok") EXCEPT
                    !.items = {l.uuid : l \in
                                 {x \in customer_leads :
                                     x.customer_id = req[r].customer_id}}]]
    /\ UNCHANGED <<users, user_info, tables, others>>

\* user_uuid of a request: the manager, an agent, and a uuid of no user
LookupUserUuids == {"uM", "uA", "u0"}

UserModifyInfoCall(r) ==
    /\ req[r].pc = "idle"
    /\ \E user_uuid \in LookupUserUuids, full_name \in {"Cili"} :
          req' = [req EXCEPT ![r] =
                    [op |-> "User::modify_info", pc |-> "mi_get_id",
                     user_uuid |-> user_uuid,
                     user |-> [email |-> "cili@niro.hu",
                               full_name |-> full_name],
                     user_id |-> NoId, tx_users |-> {}, tx_user_info |-> {},
                     result |-> "none"]]
    /\ UNCHANGED <<users, user_info, tables, others>>

\* Self::get_id_by_uuid(db, Some(user_uuid)).await?.unwrap()
UserModifyInfoGetId(r) ==
    /\ req[r].pc = "mi_get_id"
    /\ LET user_id == UserGetIdByUuid(req[r].user_uuid) IN
          req' = [req EXCEPT ![r] =
                    IF user_id = NoId THEN Return(r, Panic)
                    ELSE [req[r] EXCEPT !.pc = "mi_is_exists",
                                        !.user_id = user_id]]
    /\ UNCHANGED <<users, user_info, tables, others>>

\* User::is_exists_by_id, then db.pool.begin()
UserModifyInfoIsExists(r) ==
    /\ req[r].pc = "mi_is_exists"
    /\ req' = [req EXCEPT ![r] =
                 IF \E u \in users : u.id = req[r].user_id
                 THEN [req[r] EXCEPT !.pc = "mi_update_users"]
                 ELSE Return(r, ErrInvalidUserId)]
    /\ UNCHANGED <<users, user_info, tables, others>>

\* UPDATE users SET email = $2 WHERE id = $1, on the transaction
UserModifyInfoUpdateUsers(r) ==
    /\ req[r].pc = "mi_update_users"
    /\ \/ req' = [req EXCEPT ![r] =
                    [req[r] EXCEPT
                       !.pc = "mi_update_info",
                       !.tx_users =
                          {[u EXCEPT !.email = req[r].user.email] :
                              u \in {x \in users : x.id = req[r].user_id}}]]
       \/ req' = [req EXCEPT ![r] = Return(r, ErrDatabase)]
    /\ UNCHANGED <<users, user_info, tables, others>>

\* UPDATE user_info SET full_name = $2, ... WHERE user_id = $1, on the
\* transaction
UserModifyInfoUpdateInfo(r) ==
    /\ req[r].pc = "mi_update_info"
    /\ \/ req' = [req EXCEPT ![r] =
                    [req[r] EXCEPT
                       !.pc = "mi_commit",
                       !.tx_user_info =
                          {[i EXCEPT !.full_name = req[r].user.full_name] :
                              i \in {x \in user_info :
                                        x.user_id = req[r].user_id}}]]
       \/ req' = [req EXCEPT ![r] =
                    [Return(r, ErrDatabase) EXCEPT !.tx_users = {}]]
    /\ UNCHANGED <<users, user_info, tables, others>>

\* tx.commit(): the rows the transaction rewrote replace the stored ones
UserModifyInfoCommit(r) ==
    /\ req[r].pc = "mi_commit"
    /\ users' = {u \in users : u.id # req[r].user_id} \cup req[r].tx_users
    /\ user_info' = {i \in user_info : i.user_id # req[r].user_id}
                       \cup req[r].tx_user_info
    /\ req' = [req EXCEPT ![r] =
                 [Return(r, "Ok") EXCEPT !.tx_users = {},
                                         !.tx_user_info = {}]]
    /\ UNCHANGED <<tables, others>>

UserGetUsersByIdCall(r) ==
    /\ req[r].pc = "idle"
    /\ \E user_uuid \in LookupUserUuids :
          req' = [req EXCEPT ![r] =
                    [op |-> "User::get_users_by_id", pc |-> "gu_get_id",
                     user_uuid |-> user_uuid, user_id |-> NoId,
                     items |-> {}, result |-> "none"]]
    /\ UNCHANGED <<users, user_info, tables, others>>

\* Self::get_id_by_uuid(db, Some(user_uuid)).await?.unwrap()
UserGetUsersByIdGetId(r) ==
    /\ req[r].pc = "gu_get_id"
    /\ LET user_id == UserGetIdByUuid(req[r].user_uuid) IN
          req' = [req EXCEPT ![r] =
                    IF user_id = NoId THEN Return(r, Panic)
                    ELSE [req[r] EXCEPT !.pc = "gu_is_exists",
                                        !.user_id = user_id]]
    /\ UNCHANGED <<users, user_info, tables, others>>

\* User::is_exists_by_id
UserGetUsersByIdIsExists(r) ==
    /\ req[r].pc = "gu_is_exists"
    /\ req' = [req EXCEPT ![r] =
                 IF \E u \in users : u.id = req[r].user_id
                 THEN [req[r] EXCEPT !.pc = "gu_select"]
                 ELSE Return(r, ErrNoUser)]
    /\ UNCHANGED <<users, user_info, tables, others>>

\* SELECT ... FROM users u JOIN user_info ui ... JOIN users m ...
\* WHERE u.manager_id = $1
UserGetUsersByIdSelect(r) ==
    /\ req[r].pc = "gu_select"
    /\ req' = [req EXCEPT ![r] =
                 [Return(r, "Ok") EXCEPT
                    !.items =
                       {u.uuid : u \in
                          {x \in users :
                              /\ x.manager_id = req[r].user_id
                              /\ \E i \in user_info : i.user_id = x.id}}]]
    /\ UNCHANGED <<users, user_info, tables, others>>

MissingNext ==
    \E r \in Reqs :
        \/ CustomerDeleteCall(r)
        \/ CustomerDeleteGetId(r)
        \/ CustomerDeleteIsExists(r)
        \/ CustomerDeleteRow(r)
        \/ LeadGetByCustomerUuidCall(r)
        \/ LeadGetByCustomerUuidGetId(r)
        \/ LeadGetByCustomerUuidSelect(r)
        \/ UserModifyInfoCall(r)
        \/ UserModifyInfoGetId(r)
        \/ UserModifyInfoIsExists(r)
        \/ UserModifyInfoUpdateUsers(r)
        \/ UserModifyInfoUpdateInfo(r)
        \/ UserModifyInfoCommit(r)
        \/ UserGetUsersByIdCall(r)
        \/ UserGetUsersByIdGetId(r)
        \/ UserGetUsersByIdIsExists(r)
        \/ UserGetUsersByIdSelect(r)

SpecMissing == GateInit /\ [][MissingNext]_vars

LookupOps == {"Customer::delete", "Lead::get_by_customer_uuid",
              "User::modify_info", "User::get_users_by_id"}

\* C16, as stated: Customer::delete, Lead::get_by_customer_uuid,
\* User::modify_info and User::get_users_by_id never panic; called with the
\* uuid of a record that does not exist they return an error.
C16_AsClaimed ==
    \A r \in Reqs :
        (req[r].op \in LookupOps /\ req[r].pc = "done")
        => req[r].result # Panic

-----------------------------------------------------------------------------
(***************************************************************************)
(* utils/error.rs: how a handler turns the Result of the core into an HTTP *)
(* response.  Every handler ends in                                        *)
(*     Err(e) => ApiError::from(e).error_response()                        *)
(***************************************************************************)
\* impl From<anyhow::Error> for ApiError: the error is not looked at
ApiErrorFrom(err) == "Internal"

\* impl ResponseError for ApiError: the status of the response
error_response(api_error) ==
    CASE api_error = "Validation" -> 400
      [] api_error = "NotFound" -> 404
      [] api_error = "Unauthorized" -> 401
      [] api_error = "Forbidden" -> 403
      [] api_error = "Conflict" -> 409
      [] api_error = "Internal" -> 500

\* the status a gated handler answers with once its request is done
HandlerStatus(r) ==
    IF req[r].result = "Ok" THEN 200
    ELSE error_response(ApiErrorFrom(req[r].result))

\* C17, as stated, for the gated handlers: a request the role gate turned
\* away is answered with 403, and only an unclassified error (here a failed
\* query) with 500.
C17_AsClaimed ==
    \A r \in Reqs :
        (req[r].pc = "done" /\ req[r].result # "Ok")
        => HandlerStatus(r) = IF req[r].result = ErrForbidden THEN 403
                              ELSE 500

-----------------------------------------------------------------------------
(***************************************************************************)
(* The read operations: Customer::get_by_uuid, Customer::get_all,          *)
(* Contract::get_all and Lead::get_all, over a store in which a sensitive  *)
(* field of a customer may no longer authenticate: the ciphertext was      *)
(* damaged, it was written under an earlier key, or the nonce column holds *)
(* the nonce of another write.                                             *)
(***************************************************************************)
Damages == {"none", "phone_number", "email", "address"}

Damage(c, kind) ==
    CASE kind = "phone_number" ->
            [c EXCEPT !.phone_number_enc = Garbled(@)]
      [] kind = "email" ->
            [c EXCEPT !.email_enc =
                encrypt_value("key-2", EmailPool[c.id], c.email_nonce).enc]
      [] kind = "address" -> [c EXCEPT !.address_nonce = "nonce-000002"]
      [] OTHER -> c

\* the Customer value a getter builds from a row; id is never set, and
\* created_by / comment are the ones the getter's SELECT names
CustomerFromRow(row, comment, created_by) ==
    [id |-> NoId, uuid |-> row.uuid, full_name |-> row.full_name,
     phone_number |->
        decrypt_value(Key, row.phone_number_enc, row.phone_number_nonce),
     email |-> decrypt_value(Key, row.email_enc, row.email_nonce),
     address |-> decrypt_value(Key, row.address_enc, row.address_nonce),
     comment |-> comment, user_id |-> row.user_id,
     created_by |-> created_by]

\* Option::unwrap_or_default on a String
UnwrapOrDefault(value) == IF value = None THEN "" ELSE value

\* ContractDto / LeadListItemDto of a dependent row joined with its customer
ListItemDto(dep, c) ==
    [uuid |-> dep.uuid, full_name |-> c.full_name,
     phone_number |->
        UnwrapOrDefault(decrypt_value(Key, c.phone_number_enc,
                                      c.phone_number_nonce)),
     email |-> UnwrapOrDefault(decrypt_value(Key, c.email_enc, c.email_nonce)),
     address |->
        UnwrapOrDefault(decrypt_value(Key, c.address_enc, c.address_nonce)),
     created_by |-> dep.created_by]

\* #[skip_serializing_none]: the fields of a value that reach the JSON body
IsNoneField(field, value) ==
    CASE field \in {"id", "user_id", "customer_id"} -> value = NoId
      [] field = "uuid" -> FALSE
      [] OTHER -> value = None

JsonFields(item) == {f \in DOMAIN item : ~IsNoneField(f, item[f])}

ReadCustomerUuids ==
    {<<"customers", i>> : i \in 1..NumRecords} \cup {MissingCustomerUuid}

CustomerGetByUuidCall(r) ==
    /\ req[r].pc = "idle"
    /\ \E customer_uuid \in ReadCustomerUuids :
          req' = [req EXCEPT ![r] =
                    [op |-> "Customer::get_by_uuid", pc |-> "cg_select",
                     customer_uuid |-> customer_uuid, items |-> {},
                     result |-> "none"]]
    /\ UNCHANGED <<users, user_info, tables, others>>

\* a getter that reports a field it cannot decrypt as an error
CustomerGetByUuidStrict(r) ==
    /\ req[r].pc = "cg_select"
    /\ LET rows == {c \in customers : c.uuid = req[r].customer_uuid} IN
          \/ /\ rows = {}
             /\ req' = [req EXCEPT ![r] = Return(r, ErrDatabase)]
          \/ \E row \in rows :
                LET item == CustomerFromRow(row, row.comment, None) IN
                req' = [req EXCEPT ![r] =
                          IF None \in {item.phone_number, item.email,
                                       item.address}
                          THEN Return(r, ErrDatabase)
                          ELSE [Return(r, "Ok") EXCEPT !.items = {item}]]
    /\ UNCHANGED <<users, user_info, tables, others>>

\* SELECT ... FROM customers WHERE uuid = $1, fetch_one
CustomerGetByUuid(r) ==
    /\ req[r].pc = "cg_select"
    /\ LET rows == {c \in customers : c.uuid = req[r].customer_uuid} IN
          \/ /\ rows = {}
             /\ req' = [req EXCEPT ![r] = Return(r, ErrDatabase)]
          \/ \E row \in rows :
                req' = [req EXCEPT ![r] =
                          [Return(r, "Ok") EXCEPT
                             !.items =
                                {CustomerFromRow(row, row.comment, None)}]]
    /\ UNCHANGED <<users, user_info, tables, others>>

\* Customer::get_all, Contract::get_all, Lead::get_all(db, key, user_uuid)
ListOps == {"Customer::get_all", "Contract::get_all", "Lead::get_all"}

GetAllCall(r, op) ==
    /\ req[r].pc = "idle"
    /\ \E user_uuid \in ActorUuids :
          req' = [req EXCEPT ![r] =
                    [op |-> op, pc |-> "ga_get_user", user_uuid |-> user_uuid,
                     user_id |-> NoId, items |-> {}, result |-> "none"]]
    /\ UNCHANGED <<users, user_info, tables, others>>

CustomerGetAllCall(r) == GetAllCall(r, "Customer::get_all")
ContractGetAllCall(r) == GetAllCall(r, "Contract::get_all")
LeadGetAllCall(r) == GetAllCall(r, "Lead::get_all")

\* User::get_id_by_uuid(db, Some(user_uuid)).await?.ok_or_else(..)?
GetAllGetUser(r) ==
    /\ req[r].pc = "ga_get_user"
    /\ LET id == UserGetIdByUuid(req[r].user_uuid) IN
          req' = [req EXCEPT ![r] =
                    IF id = NoId THEN Return(r, ErrUserNotFound)
                    ELSE [req[r] EXCEPT !.pc = "ga_select", !.user_id = id]]
    /\ UNCHANGED <<users, user_info, tables, others>>

\* SELECT ... FROM customers WHERE user_id = $1
CustomerGetAll(r) ==
    /\ req[r].op = "Customer::get_all"
    /\ req[r].pc = "ga_select"
    /\ req' = [req EXCEPT ![r] =
                 [Return(r, "Ok") EXCEPT
                    !.items =
                       {CustomerFromRow(c, None, c.created_by) :
                           c \in {x \in customers :
                                     x.user_id = req[r].user_id}}]]
    /\ UNCHANGED <<users, user_info, tables, others>>

\* the rows of customers c JOIN dependents d ON d.customer_id = c.id
\* WHERE d.user_id = $1, as list items
JoinedItems(dependents, user_id) ==
    {ListItemDto(pair[1], pair[2]) :
        pair \in {p \in dependents \X customers :
                     /\ p[1].customer_id = p[2].id
                     /\ p[1].user_id = user_id}}

ContractGetAll(r) ==
    /\ req[r].op = "Contract::get_all"
    /\ req[r].pc = "ga_select"
    /\ req' = [req EXCEPT ![r] =
                 [Return(r, "Ok") EXCEPT
                    !.items = JoinedItems(customer_contracts,
                                          req[r].user_id)]]
    /\ UNCHANGED <<users, user_info, tables, others>>

LeadGetAll(r) ==
    /\ req[r].op = "Lead::get_all"
    /\ req[r].pc = "ga_select"
    /\ req' = [req EXCEPT ![r] =
                 [Return(r, "Ok") EXCEPT
                    !.items = JoinedItems(customer_leads, req[r].user_id)]]
    /\ UNCHANGED <<users, user_info, tables, others>>

ReadInit ==
    /\ users = InitUsers
    /\ user_info = InitUserInfo
    /\ \E damage \in [1..NumRecords -> Damages] :
          customers = {Damage(c, damage[c.id]) : c \in GateCustomers}
    /\ customer_contracts = GateDependents("customer_contracts", <<1, 2>>)
    /\ customer_leads = GateDependents("customer_leads", <<1, 1>>)
    /\ customer_intervention_tasks =
          GateDependents("customer_intervention_tasks", <<2>>)
    /\ recruitment = {}
    /\ user_dates = {}
    /\ customer_recommendations = {}
    /\ seq = [t \in TableNames |->
                CASE t = "customers" -> NumRecords
                  [] t \in {"customer_contracts", "customer_leads"} -> 2
                  [] t = "customer_intervention_tasks" -> 1
                  [] OTHER -> 0]
    /\ req = [r \in Reqs |-> Idle]

ReadNext ==
    \E r \in Reqs :
        \/ CustomerGetByUuidCall(r)
        \/ CustomerGetByUuid(r)
        \/ CustomerGetAllCall(r)
        \/ ContractGetAllCall(r)
        \/ LeadGetAllCall(r)
        \/ GetAllGetUser(r)
        \/ CustomerGetAll(r)
        \/ ContractGetAll(r)
        \/ LeadGetAll(r)

SpecRead == ReadInit /\ [][ReadNext]_vars

ReadOps == ListOps \cup {"Customer::get_by_uuid"}

\* the fields whose value is a sequential id of a table
InternalIdFields == {"id", "user_id", "customer_id"}

\* C18, as stated: no value a read operation returns to the API boundary
\* carries the internal sequential id of a record or of a user.
C18_AsClaimed ==
    \A r \in Reqs :
        (req[r].op \in ReadOps /\ req[r].pc = "done")
        => \A item \in req[r].items :
              JsonFields(item) \cap InternalIdFields = {}

\* the plaintext customer c was created with
CreatedWith(c, field) ==
    CASE field = "phone_number" -> PhonePool[c.id]
      [] field = "email" -> EmailPool[c.id]
      [] field = "address" -> "Budapest"

\* the stored ciphertext and nonce of a field are a pair encrypt_value
\* produces under the key of the server
Authenticates(c, field) ==
    LET stored ==
          CASE field = "phone_number" ->
                  [enc |-> c.phone_number_enc, nonce |-> c.phone_number_nonce]
            [] field = "email" ->
                  [enc |-> c.email_enc, nonce |-> c.email_nonce]
            [] field = "address" ->
                  [enc |-> c.address_enc, nonce |-> c.address_nonce]
    IN  stored = encrypt_value(Key, CreatedWith(c, field), stored.nonce)

\* item is customer c as a read returns it: a field that authenticates
\* carries its plaintext, one that does not is absent or empty
ReturnedNormally(item, c) ==
    /\ item.full_name = c.full_name
    /\ \A field \in {"phone_number", "email", "address"} :
          IF Authenticates(c, field)
          THEN item[field] = CreatedWith(c, field)
          ELSE item[field] \in {None, ""}

\* the customer an item of a read stands for
CustomerOf(r, item) ==
    CASE req[r].op \in {"Customer::get_by_uuid", "Customer::get_all"} ->
            CHOOSE c \in customers : c.uuid = item.uuid
      [] req[r].op = "Contract::get_all" ->
            CHOOSE c \in customers :
               \E d \in customer_contracts :
                  d.uuid = item.uuid /\ d.customer_id = c.id
      [] req[r].op = "Lead::get_all" ->
            CHOOSE c \in customers :
               \E d \in customer_leads :
                  d.uuid = item.uuid /\ d.customer_id = c.id

\* the uuids of the rows a read selects
SelectedUuids(r) ==
    CASE req[r].op = "Customer::get_by_uuid" ->
            {c.uuid : c \in {x \in customers :
                                x.uuid = req[r].customer_uuid}}
      [] req[r].op = "Customer::get_all" ->
            {c.uuid : c \in {x \in customers : x.user_id = req[r].user_id}}
      [] req[r].op = "Contract::get_all" ->
            {d.uuid : d \in {x \in customer_contracts :
                                x.user_id = req[r].user_id}}
      [] req[r].op = "Lead::get_all" ->
            {d.uuid : d \in {x \in customer_leads :
                                x.user_id = req[r].user_id}}

\* the record, or the user, the read was called for exists
ReadTargetExists(r) ==
    IF req[r].op = "Customer::get_by_uuid"
    THEN \E c \in customers : c.uuid = req[r].customer_uuid
    ELSE \E u \in users : u.uuid = req[r].user_uuid

\* C19: a finished read whose target exists has succeeded, whatever fields
\* of the selected rows fail authentication; it returns every selected row,
\* each with the fields that authenticate decrypted and the fields that do
\* not absent (Customer) or empty (list items).
C19_DecryptFailureIsNotAnError ==
    \A r \in Reqs :
        (req[r].op \in ReadOps /\ req[r].pc = "done" /\ ReadTargetExists(r))
        => /\ req[r].result = "Ok"
           /\ {item.uuid : item \in req[r].items} = SelectedUuids(r)
           /\ \A item \in req[r].items :
                 ReturnedNormally(item, CustomerOf(r, item))

\* a customer was read whose phone number does not authenticate: the
\* phone number is absent, email and address are there; and a list of
\* contracts was read with an empty field in one item
C19_Witness ==
    \E r, o \in Reqs :
        /\ req[r].op = "Customer::get_by_uuid" /\ req[r].result = "Ok"
        /\ \E item \in req[r].items :
              /\ ~Authenticates(CustomerOf(r, item), "phone_number")
              /\ item.phone_number = None
              /\ item.email \in Emails \cup {EmailPool[NumRecords]}
              /\ item.address = "Budapest"
        /\ req[o].op = "Contract::get_all" /\ req[o].result = "Ok"
        /\ \E item \in req[o].items :
              /\ ~Authenticates(CustomerOf(o, item), "email")
              /\ item.email = ""
              /\ item.phone_number # ""

-----------------------------------------------------------------------------
(* The customer resolver across owners (Spec)                              *)

\* the stored customers that carry the email or the phone number of a
\* payload, whoever owns them
CustomersOfAnyOwner(customer) ==
    {c \in customers :
        \/ Decrypted(c, "email") = customer.email
        \/ Decrypted(c, "phone_number") = customer.phone_number}

\* C20: when a contract, lead or task is created with the email or the phone
\* number of a stored customer, whoever owns that customer, the resolver
\* takes one of those customers and goes on to the insert of the dependent
\* row; that insert adds no customer and leaves every customer, its owner
\* included, as it was, and the new dependent row links to the resolved
\* customer and is owned by the acting user.
C20_DedupAcrossOwners ==
    [][\A r \in Reqs :
          (Moved(r) /\ req[r].op \in DepOps)
          => /\ (req[r].pc = "dep_select"
                   /\ CustomersOfAnyOwner(req[r].customer) # {})
                => /\ req'[r].pc = "dep_insert"
                   /\ req'[r].found
                   /\ req'[r].customer_id \in
                         {c.id : c \in CustomersOfAnyOwner(req[r].customer)}
                   /\ customers' = customers
             /\ (req[r].pc = "dep_insert" /\ req[r].found)
                => /\ customers' = customers
                   /\ \E row \in DepTable(req[r].op)' :
                         /\ row \notin DepTable(req[r].op)
                         /\ row.customer_id = req[r].customer_id
                         /\ row.user_id = req[r].user_id]_vars

\* agent B (id 2) has created a dependent record with the email or phone of
\* the one stored customer, which agent A (id 1) owns: the record is B's and
\* links to A's customer
C20_Witness ==
    \E r \in Reqs, c \in customers :
        /\ req[r].op \in DepOps /\ req[r].result = "Ok" /\ req[r].found
        /\ req[r].user_id = 2
        /\ req[r].inserted_customer = NoId
        /\ customers = {c}
        /\ c.user_id = 1
        /\ c.id = req[r].customer_id
        /\ \E row \in DepTable(req[r].op) :
              /\ row.id = req[r].inserted_dep
              /\ row.customer_id = c.id
              /\ row.user_id = 2

-----------------------------------------------------------------------------
(* The dependent creates under concurrency (Spec)                          *)

\* C21, as stated: under every interleaving, a finished Contract::create,
\* Lead::create or InterventionTask::create with a resolvable actor has
\* inserted its dependent row, linked to a customer that carries the
\* presented email or phone; it has not failed with the already-exists
\* error of the existence check inside Customer::create.
C21_AsClaimed ==
    \A r \in Reqs :
        (req[r].op \in DepOps /\ req[r].pc = "done" /\ req[r].user_id # NoId)
        => /\ req[r].result = "Ok"
           /\ \E row \in DepTable(req[r].op), c \in customers :
                 /\ row.id = req[r].inserted_dep
                 /\ row.customer_id = c.id
                 /\ c \in CustomersOfAnyOwner(req[r].customer)

-----------------------------------------------------------------------------
(***************************************************************************)
(* Contract::create, Lead::create and InterventionTask::create run their   *)
(* statements on the pool, one by one, without a transaction.  A statement *)
(* may fail and the request may be dropped at any suspension point; what   *)
(* the earlier statements wrote stays.                                     *)
(***************************************************************************)

\* a create whose statements are undone when it does not reach its end
DepCreateStoppedRollingBack(r) ==
    /\ req[r].op \in DepOps
    /\ req[r].pc \notin {"idle", "done"}
    /\ \E result \in {Dropped, ErrDatabase} :
          req' = [req EXCEPT ![r] = Return(r, result)]
    /\ customers' = {c \in customers : c.id # req[r].inserted_customer}
    /\ UNCHANGED <<users, user_info, others, seq, customer_contracts,
                   customer_leads, customer_intervention_tasks>>

\* the query the request waits on fails (`?` returns the error), or the
\* future of the request is dropped while it waits
DepCreateStopped(r) ==
    /\ req[r].op \in DepOps
    /\ req[r].pc \notin {"idle", "done"}
    /\ \E result \in {Dropped, ErrDatabase} :
          req' = [req EXCEPT ![r] = Return(r, result)]
    /\ UNCHANGED <<users, user_info, tables, others>>

StopNext == \E r \in Reqs : Step(r) \/ DepCreateStopped(r)

SpecStop == Init /\ [][StopNext]_vars

\* the dependent rows of all three tables that reference customer id
Referencing(customer_id) ==
    {row \in customer_contracts \cup customer_leads
                \cup customer_intervention_tasks :
        row.customer_id = customer_id}

\* C22: when a Contract::create, Lead::create or InterventionTask::create
\* fails or is dropped after its resolver has inserted a new customer and
\* before its dependent row is inserted, nothing is undone: the store is
\* left as it was, with the new customer row in it and no dependent row of
\* this request referencing it.
C22_NotTransactional ==
    [][\A r \in Reqs :
          (/\ Moved(r) /\ req[r].op \in DepOps
           /\ req[r].pc = "dep_insert" /\ req[r].inserted_customer # NoId
           /\ req'[r].result \in {Dropped, ErrDatabase})
          => /\ customers' = customers
             /\ \E c \in customers' : c.id = req[r].inserted_customer
             /\ req'[r].inserted_dep = NoId
             /\ Referencing(req[r].inserted_customer)' =
                   Referencing(req[r].inserted_customer)]_vars

\* a create was stopped after it had inserted its customer: the customer is
\* stored and no row of any dependent table references it
C22_Witness ==
    \E r \in Reqs :
        /\ req[r].op \in DepOps
        /\ req[r].result \in {Dropped, ErrDatabase}
        /\ req[r].inserted_customer # NoId
        /\ \E c \in customers : c.id = req[r].inserted_customer
        /\ Referencing(req[r].inserted_customer) = {}

-----------------------------------------------------------------------------
(***************************************************************************)
(* Non-overlapping calls of the creates and of Customer::modify, from a    *)
(* store that holds one customer.                                          *)
(***************************************************************************)
CreateModifyNext ==
    \E r \in Reqs :
        \/ NoOtherInFlight(r) /\ CustomerCreateCall(r)
        \/ NoOtherInFlight(r) /\ CustomerIsExists(r)
        \/ NoOtherInFlight(r) /\ CustomerGetUser(r)
        \/ NoOtherInFlight(r) /\ CustomerInsert(r)
        \/ NoOtherInFlight(r) /\ ContractCreateCall(r)
        \/ NoOtherInFlight(r) /\ ContractGetUser(r)
        \/ NoOtherInFlight(r) /\ ContractSelectCustomer(r)
        \/ NoOtherInFlight(r) /\ ContractInsert(r)
        \/ NoOtherInFlight(r) /\ LeadCreateCall(r)
        \/ NoOtherInFlight(r) /\ LeadGetUser(r)
        \/ NoOtherInFlight(r) /\ LeadSelectCustomer(r)
        \/ NoOtherInFlight(r) /\ LeadInsert(r)
        \/ NoOtherInFlight(r) /\ TaskCreateCall(r)
        \/ NoOtherInFlight(r) /\ TaskGetUser(r)
        \/ NoOtherInFlight(r) /\ TaskSelectCustomer(r)
        \/ NoOtherInFlight(r) /\ TaskInsert(r)
        \/ NoOtherInFlight(r) /\ CustomerModifyCall(r)
        \/ NoOtherInFlight(r) /\ CustomerModify(r)

SpecCreateModify == ModifyInit /\ [][CreateModifyNext]_vars

\* C23, as stated: after any sequence of non-overlapping calls of
\* Customer::create, Contract::create, Lead::create,
\* InterventionTask::create and Customer::modify, no two customer rows
\* share an email hash and no two share a phone hash.
C23_AsClaimed ==
    \A c, d \in customers :
        c.id # d.id => /\ c.email_hash # d.email_hash
                       /\ c.phone_number_hash # d.phone_number_hash

\* C24: in every reachable state each stored customer's email_hash is the
\* hash of the plaintext its email ciphertext decrypts to, and its
\* phone_number_hash the hash of the plaintext its phone ciphertext decrypts
\* to: create and modify write both from one plaintext in one statement.
C24_IndexMatchesCiphertext ==
    \A c \in customers :
        /\ Decrypted(c, "email") \notin {None, Panic}
        /\ c.email_hash = hash_value(HmacSecret, Decrypted(c, "email"))
        /\ Decrypted(c, "phone_number") \notin {None, Panic}
        /\ c.phone_number_hash =
              hash_value(HmacSecret, Decrypted(c, "phone_number"))

\* a customer was created and the customer stored before was modified to
\* another email
C24_Witness ==
    \E r, o \in Reqs, c, d \in customers :
        /\ req[r].op \in CreateOps /\ req[r].result = "Ok"
        /\ d.id = req[r].inserted_customer
        /\ req[o].op = "Customer::modify" /\ req[o].result = "Ok"
        /\ c.uuid = req[o].uuid
        /\ Decrypted(c, "email") = EmailPool[NumEmails]
        /\ Decrypted(c, "phone_number") = ""

-----------------------------------------------------------------------------
(* The existence check of Recruitment::create (SpecRecruit)                *)

\* the stored candidates that share the email hash or the phone hash of r
BlindIndexMatches(r) ==
    {row \in recruitment :
        \/ row.email_hash = hash_value(HmacSecret, UnwrapOr(r.email, ""))
        \/ row.phone_number_hash =
              hash_value(HmacSecret, UnwrapOr(r.phone_number, ""))}

\* C25, as stated: the existence check of Recruitment::create ends the call
\* with the already-exists error only when a stored candidate has the email
\* hash or the phone hash of the new one; a candidate whose email and phone
\* match no stored row passes the check.
C25_AsClaimed ==
    [][\A r \in Reqs :
          (req[r].op = "Recruitment::create" /\ Moved(r)
             /\ req[r].pc = "rc_is_exists")
          => IF BlindIndexMatches(req[r].recruitment) # {}
             THEN req'[r].result = ErrCandidateExists
             ELSE req'[r].pc = "rc_insert"]_vars

-----------------------------------------------------------------------------
(* Reassignment per record type (SpecGate)                                 *)

\* who owns which row of a table
Owners(rows) == {<<row.uuid, row.user_id>> : row \in rows}

\* C26: the update of Contract::change_handler changes the owner of listed
\* contracts only: the owners of all customers, leads and tasks, the
\* meetings, and the owners of the contracts not listed stay as they were.
\* The update of Customer::change_handler leaves the owners of all
\* contracts, leads and tasks, and the meetings, as they were.
C26_ReassignmentPerRecordType ==
    [][\A r \in Reqs :
          (Moved(r) /\ req[r].pc = "ch_update")
          => /\ req[r].op = "change_contract_handler"
                => /\ Owners(customers)' = Owners(customers)
                   /\ Owners(customer_leads)' = Owners(customer_leads)
                   /\ Owners(customer_intervention_tasks)'
                         = Owners(customer_intervention_tasks)
                   /\ user_dates' = user_dates
                   /\ \A d \in customer_contracts :
                         d.uuid \notin req[r].uuids
                         => <<d.uuid, d.user_id>> \in Owners(customer_contracts)'
             /\ req[r].op = "change_customer_handler"
                => /\ Owners(customer_contracts)' = Owners(customer_contracts)
                   /\ Owners(customer_leads)' = Owners(customer_leads)
                   /\ Owners(customer_intervention_tasks)'
                         = Owners(customer_intervention_tasks)
                   /\ user_dates' = user_dates]_vars

\* contract 1 was handed to Lili (id 4) while its customer and that
\* customer's lead stay with Anna (id 1); customer 2 was handed to Lili
\* while its contract stays with Bela (id 2)
C26_Witness ==
    \E r, o \in Reqs :
        /\ req[r].op = "change_contract_handler" /\ req[r].result = "Ok"
        /\ req[r].uuids = {<<"customer_contracts", 1>>}
        /\ <<<<"customer_contracts", 1>>, 4>> \in Owners(customer_contracts)
        /\ <<<<"customers", 1>>, 1>> \in Owners(customers)
        /\ <<<<"customer_leads", 1>>, 1>> \in Owners(customer_leads)
        /\ req[o].op = "change_customer_handler" /\ req[o].result = "Ok"
        /\ req[o].uuids = {<<"customers", 2>>}
        /\ <<<<"customers", 2>>, 4>> \in Owners(customers)
        /\ <<<<"customer_contracts", 2>>, 2>> \in Owners(customer_contracts)

-----------------------------------------------------------------------------
(* The manager relation (SpecRole, SpecUser)                               *)

\* users.manager_id of the user with this id, NoId when there is none
ManagerIdOf(user_id) ==
    IF \E u \in users : u.id = user_id
    THEN (CHOOSE u \in users : u.id = user_id).manager_id
    ELSE NoId

\* user_id is met within n links on the chain of managers that starts at
\* manager_id
RECURSIVE ManagedBy(_, _, _)
ManagedBy(user_id, manager_id, n) ==
    /\ n > 0
    /\ manager_id # NoId
    /\ \/ manager_id = user_id
       \/ ManagedBy(user_id, ManagerIdOf(manager_id), n - 1)

\* C27: the manager relation has no cycle: no user is met on the chain of
\* managers above them, in particular no user is their own manager.
C27_AsClaimed ==
    \A u \in users : ~ManagedBy(u.id, u.manager_id, Cardinality(users))

-----------------------------------------------------------------------------
(* The role User::create stores (SpecUser)                                 *)

\* the users rows that User::create wrote, committed or still in the
\* transaction of the request
CreatedUsers ==
    {u \in users : u \notin InitUsers}
        \cup UNION {req[r].tx_users : r \in {c \in Reqs :
                                                req[c].op = "User::create"}}

\* C28: User::create stores the role Agent when the payload carries a
\* manager reference and Manager when it carries none, whether or not the
\* reference resolves to a user; no created user is a Leader.
C28_RoleFromManagerReference ==
    /\ \A u \in CreatedUsers : u.user_role \in {"Agent", "Manager"}
    /\ \A r \in Reqs :
          req[r].op = "User::create"
          => \A u \in CreatedUsers :
                u.id = req[r].user_id
                => u.user_role = IF req[r].new_user.manager_uuid # None
                                 THEN "Agent" ELSE "Manager"

\* one create with the manager uM committed an Agent under user 3, and one
\* without a manager reference committed a Manager without a manager
C28_Witness ==
    \E r, o \in Reqs :
        /\ req[r].op = "User::create" /\ req[r].result = "Ok"
        /\ req[r].new_user.manager_uuid = "uM"
        /\ \E u \in users : /\ u.id = req[r].user_id
                            /\ u.user_role = "Agent" /\ u.manager_id = 3
        /\ req[o].op = "User::create" /\ req[o].result = "Ok"
        /\ req[o].new_user.manager_uuid = None
        /\ \E u \in users : /\ u.id = req[o].user_id
                            /\ u.user_role = "Manager"
                            /\ u.manager_id = NoId

-----------------------------------------------------------------------------
(***************************************************************************)
(* The gate for an actor whose stored role is none of the three names:     *)
(* users.user_role is a text column, and User::get_role converts whatever  *)
(* it holds.  Handlers gated at Agent, Manager and Leader run for agent    *)
(* Anna (id 1), whose row holds such a string, and for the other actors.   *)
(***************************************************************************)
\* stored strings that name no variant of UserRole
UnrecognizedRoles == {"Admin", "leader", ""}

UnrecognizedRoleInit ==
    /\ \E user_role \in UnrecognizedRoles :
          users = {IF u.id = 1 THEN [u EXCEPT !.user_role = user_role]
                   ELSE u : u \in InitUsers}
    /\ user_info = InitUserInfo
    /\ customers = GateCustomers
    /\ customer_contracts = GateDependents("customer_contracts", <<1, 2>>)
    /\ customer_leads = GateDependents("customer_leads", <<1, 1>>)
    /\ customer_intervention_tasks =
          GateDependents("customer_intervention_tasks", <<2>>)
    /\ recruitment = {}
    /\ user_dates = {}
    /\ customer_recommendations = {}
    /\ seq = [t \in TableNames |->
                CASE t = "customers" -> NumRecords
                  [] t \in {"customer_contracts", "customer_leads"} -> 2
                  [] t = "customer_intervention_tasks" -> 1
                  [] OTHER -> 0]
    /\ req = [r \in Reqs |-> Idle]

UnrecognizedRoleNext ==
    \E r \in Reqs :
        \/ ChangeContractHandlerCall(r)
        \/ DeleteContractCall(r)
        \/ PortfolioChartCall(r)
        \/ RequireRole(r)
        \/ ChangeHandlerSelectUser(r)
        \/ ContractChangeHandler(r)
        \/ ContractDelete(r)
        \/ PortfolioChart(r)

SpecUnrecognizedRole == UnrecognizedRoleInit /\ [][UnrecognizedRoleNext]_vars

\* the actor of request r has a users row whose role string is none of
\* Agent, Manager, Leader
ActorRoleUnrecognized(r) ==
    \E u \in users :
        /\ u.id = req[r].actor
        /\ u.user_role \notin {UserRoles[i] : i \in DOMAIN UserRoles}

\* C29: for an actor whose stored role string is unrecognized the gate reads
\* the role as Agent and raises no error of its own: require_role(Manager)
\* and require_role(Leader) turn the request away with the no-permission
\* error, and require_role(Agent) lets it through to the handler's body.
C29_UnrecognizedRoleIsAgent ==
    [][\A r \in Reqs :
          (req[r].pc = "require_role" /\ Moved(r) /\ ActorRoleUnrecognized(r))
          => /\ req'[r].user_role = "Agent"
             /\ req[r].min_role \in {"Manager", "Leader"}
                => req'[r].pc = "done" /\ req'[r].result = ErrForbidden
             /\ req[r].min_role = "Agent"
                => req'[r].pc = HandlerBody(req[r].op)]_vars

\* Anna, stored with an unrecognized role, deleted a contract through the
\* Agent gate and was turned away at the Leader gate of a reassignment
C29_Witness ==
    \E r, o \in Reqs :
        /\ req[r].op = "delete_contract" /\ ActorRoleUnrecognized(r)
        /\ req[r].user_role = "Agent" /\ req[r].result = "Ok"
        /\ req[o].op = "change_contract_handler" /\ ActorRoleUnrecognized(o)
        /\ req[o].user_role = "Agent" /\ req[o].result = ErrForbidden

-----------------------------------------------------------------------------
(* Customer::delete over a list (SpecMissing)                              *)

\* the customers of the initial store that are gone
DeletedCustomers == {c \in GateCustomers : c \notin customers}

\* C30: Customer::delete over a list is all-or-nothing: when a call has
\* failed and no other Customer::delete has been called, no customer is
\* gone from the store.
C30_AsClaimed ==
    \A r \in Reqs :
        ( /\ req[r].op = "Customer::delete"
          /\ req[r].pc = "done"
          /\ req[r].result # "Ok"
          /\ \A o \in Reqs \ {r} : req[o].op # "Customer::delete" )
        => DeletedCustomers = {}

====
